---- MODULE Spec2Model ----
(***************************************************************************)
(* Model of the agent-usage MCP tool server: the stdio transport          *)
(* (index.ts / agent-usage-mcp.js), the JSON-RPC dispatcher (server.ts),   *)
(* the tool registry (tools/registry.ts) and the usage tools               *)
(* (tools/zai.ts).  The two implementations of the server, the modular     *)
(* one and the single-file one, are both covered: the variable impl says   *)
(* which of the two is running.                                            *)
(***************************************************************************)
EXTENDS Integers, Sequences, FiniteSets, TLC

\* ------------------------------------------------------------------------
\* Bounds
\* ------------------------------------------------------------------------

\* number of input lines the peer sends in the transport specification
MaxLines == 2

\* number of input lines the peer sends in the dispatcher specification
MaxWideLines == 1

\* number of input lines the peer sends in the liveness specification
MaxLiveLines == 2

\* number of input lines the peer sends in the hours specification
MaxHoursLines == 1

\* number of input lines the peer sends in the quota specification
MaxQuotaLines == 1

\* number of accounts in the accounts file
MaxAccounts == 2

\* ------------------------------------------------------------------------
\* JavaScript values (the part of JSON the dispatcher looks at)
\* ------------------------------------------------------------------------

JsUndefined == [t |-> "undefined", n |-> 0, s |-> ""]
JsNull == [t |-> "null", n |-> 0, s |-> ""]
JsNaN == [t |-> "nan", n |-> 0, s |-> ""]
JsNum(k) == [t |-> "number", n |-> k, s |-> ""]
JsStr(str) == [t |-> "string", n |-> 0, s |-> str]
\* true is JsBool(1), false is JsBool(0)
JsBool(b) == [t |-> "boolean", n |-> b, s |-> ""]
\* the number k + 1/2: n holds k, the whole number below it
JsHalf(k) == [t |-> "number", n |-> k, s |-> "half"]
\* a number too large for a double, which JSON.parse reads as Infinity
JsInfinity == [t |-> "infinity", n |-> 0, s |-> ""]
\* a JSON object such as {}
JsObject == [t |-> "object", n |-> 0, s |-> ""]

\* the default of the hours argument
DefaultHours == 24

\* Number(str) for the strings the model sends
StrToNumber(str) ==
  CASE str = "" -> JsNum(0)
    [] str = "5" -> JsNum(5)
    [] str = "-1" -> JsNum(-1)
    [] str = "24" -> JsNum(24)
    [] str = "0" -> JsNum(0)
    [] str = "1" -> JsNum(1)
    [] str = "01" -> JsNum(1)
    [] str = "999" -> JsNum(999)
    [] OTHER -> JsNaN

\* Number(v)
ToNumber(v) ==
  CASE v.t = "number" -> v
    [] v.t = "null" -> JsNum(0)
    [] v.t = "string" -> StrToNumber(v.s)
    [] v.t = "boolean" -> JsNum(v.n)
    [] v.t = "infinity" -> JsInfinity
    [] OTHER -> JsNaN

\* String(k) for the numbers the model sends
NumToString(k) ==
  CASE k = -1 -> "-1"
    [] k = 0 -> "0"
    [] k = 1 -> "1"
    [] k = 5 -> "5"
    [] k = 24 -> "24"
    [] k = 2 -> "2"
    [] k = 999 -> "999"
    [] OTHER -> "number"

\* `${v}` in a template literal
TemplateString(v) ==
  CASE v.t = "number" -> NumToString(v.n)
    [] v.t = "string" -> v.s
    [] v.t = "boolean" -> (IF v.n = 1 THEN "true" ELSE "false")
    [] v.t = "null" -> "null"
    [] v.t = "undefined" -> "undefined"
    [] v.t = "infinity" -> "Infinity"
    [] v.t = "object" -> "[object Object]"
    [] OTHER -> "NaN"

\* Number.isFinite(parsed) && parsed > 0
IsFinitePositive(p) == p.t = "number" /\ p.n > 0

\* validateHours with a loose test (hours == undefined), which null passes
ValidateHoursModular_NullDefaults(hours) ==
  IF hours.t \in {"undefined", "null"} THEN [ok |-> TRUE, value |-> DefaultHours]
  ELSE IF IsFinitePositive(ToNumber(hours))
       THEN [ok |-> TRUE, value |-> ToNumber(hours).n]
       ELSE [ok |-> FALSE, value |-> 0]

\* validateHours of the modular server: [ok, value] or a thrown error
ValidateHoursModular(hours) ==
  IF hours.t = "undefined" THEN [ok |-> TRUE, value |-> DefaultHours]
  ELSE IF IsFinitePositive(ToNumber(hours))
       THEN [ok |-> TRUE, value |-> ToNumber(hours).n]
       ELSE [ok |-> FALSE, value |-> 0]

\* a validateHours that puts the default in place of an absent value only
ValidateHoursSingle_AbsentOnly(hours) ==
  IF hours.t = "undefined" THEN [ok |-> TRUE, value |-> DefaultHours]
  ELSE IF IsFinitePositive(ToNumber(hours))
       THEN [ok |-> TRUE, value |-> ToNumber(hours).n]
       ELSE [ok |-> FALSE, value |-> 0]

\* validateHours of the single-file server: never throws
ValidateHoursSingle(hours) ==
  IF IsFinitePositive(ToNumber(hours))
  THEN [ok |-> TRUE, value |-> ToNumber(hours).n]
  ELSE [ok |-> TRUE, value |-> DefaultHours]

ValidateHours(im, hours) ==
  IF im = "modular" THEN ValidateHoursModular(hours) ELSE ValidateHoursSingle(hours)

\* ------------------------------------------------------------------------
\* Input lines
\* ------------------------------------------------------------------------

\* a line that parses to a JSON object
Msg(id, method, hasParams, name, hours) ==
  [kind |-> "object", id |-> id, method |-> method, hasParams |-> hasParams,
   name |-> name, hours |-> hours, account |-> JsUndefined]

\* a blank line, a line that is not JSON, the JSON text null
BlankLine == [kind |-> "blank", id |-> JsUndefined, method |-> "", hasParams |-> FALSE,
              name |-> "", hours |-> JsUndefined, account |-> JsUndefined]
GarbageLine == [kind |-> "garbage", id |-> JsUndefined, method |-> "", hasParams |-> FALSE,
                name |-> "", hours |-> JsUndefined, account |-> JsUndefined]
NullLine == [kind |-> "null", id |-> JsUndefined, method |-> "", hasParams |-> FALSE,
             name |-> "", hours |-> JsUndefined, account |-> JsUndefined]

Ids == {JsUndefined, JsNull, JsNum(1), JsNum(2)}

PlainMethods == {"initialize", "ping", "tools/list", "bogus/method"}

ObjectLines ==
  {Msg(id, m, FALSE, "", JsUndefined) : id \in Ids, m \in PlainMethods \cup {"tools/call"}}
  \cup {Msg(id, "tools/call", TRUE, nm, JsUndefined) :
          id \in Ids, nm \in {"bogus_tool", "get_quota"}}
  \cup {Msg(id, "tools/call", TRUE, "get_model_usage", JsNum(-1)) : id \in Ids}
  \cup {Msg(id, "tools/call", TRUE, "get_usage", JsUndefined) :
          id \in {JsUndefined, JsNum(1)}}

\* every line the peer may send in the dispatcher specification
Lines == {BlankLine, GarbageLine, NullLine} \cup ObjectLines

ToolCall(id, name, hours) == Msg(id, "tools/call", TRUE, name, hours)

\* a call of get_antigravity_account_quota with the account argument given
AccountCall(id, identifier) ==
  [ToolCall(id, "get_antigravity_account_quota", JsUndefined)
     EXCEPT !.account = identifier]
Plain(id, method) == Msg(id, method, FALSE, "", JsUndefined)

\* the lines the peer may send in the transport specification: one line of
\* every kind the line callback and the dispatcher tell apart
TransportLines ==
  {BlankLine, GarbageLine, NullLine,
   Plain(JsUndefined, "ping"), Plain(JsNull, "bogus/method"), Plain(JsNum(1), "ping"),
   ToolCall(JsNum(1), "get_tool_usage", JsUndefined),
   ToolCall(JsNum(2), "get_quota", JsUndefined),
   ToolCall(JsNum(2), "get_model_usage", JsNum(-1)),
   ToolCall(JsNum(1), "bogus_tool", JsUndefined)}

\* the lines the peer may send in the liveness specification
LiveLines ==
  {NullLine, Plain(JsNum(1), "ping"),
   ToolCall(JsNum(2), "get_quota", JsUndefined),
   ToolCall(JsNum(1), "get_model_usage", JsNum(-1))}

\* the values the peer may send as the hours argument
HoursValues ==
  {JsUndefined, JsNull, JsNum(-1), JsNum(0), JsNum(5), JsStr(""), JsStr("5"),
   JsStr("abc"), JsStr("-1"), JsBool(1), JsBool(0), JsInfinity, JsObject}

\* the lines the peer may send in the hours specification
HoursLines ==
  {ToolCall(JsNum(1), nm, h) :
     nm \in {"get_usage", "get_model_usage", "get_tool_usage"}, h \in HoursValues}

\* ------------------------------------------------------------------------
\* Envelopes
\* ------------------------------------------------------------------------

ParseErrorCode == -32700
MethodNotFoundCode == -32601
ApplicationErrorCode == -32000

\* JSON.stringify({jsonrpc: "2.0", id, result})
makeResponse(id, what, arg) ==
  [id |-> id, type |-> "result", code |-> 0, what |-> what, arg |-> arg,
   tools |-> <<>>, info |-> <<>>]

\* an error envelope that does not echo the id
makeError_NullId(id, code, what, arg) ==
  [id |-> JsNull, type |-> "error", code |-> code, what |-> what, arg |-> arg,
   tools |-> <<>>, info |-> <<>>]

\* JSON.stringify({jsonrpc: "2.0", id, error: {code, message}})
makeError(id, code, what, arg) ==
  [id |-> id, type |-> "error", code |-> code, what |-> what, arg |-> arg,
   tools |-> <<>>, info |-> <<>>]

\* a parse-error envelope under the invalid-request code
makeParseError_WrongCode == makeError(JsNull, -32600, "Parse error", "")

\* the envelope written for a line that is not JSON
makeParseError == makeError(JsNull, ParseErrorCode, "Parse error", "")

\* ------------------------------------------------------------------------
\* Tool registry
\* ------------------------------------------------------------------------

\* a property of an input schema: type and oneOf are lists, default is the
\* empty list when the property has none
Property(name, type, oneOf, description, default) ==
  [name |-> name, type |-> type, oneOf |-> oneOf, description |-> description,
   default |-> default]

\* an alternative of a oneOf
Alternative(type, description) == [type |-> type, description |-> description]

\* a tool descriptor; the inputSchema, always of type "object", is held by
\* its properties and its required list
Descriptor(name, description, properties, required) ==
  [name |-> name, description |-> description, properties |-> properties,
   required |-> required]

\* the hours property of a descriptor
HoursProperty(description) == Property("hours", <<"number">>, <<>>, description, <<24>>)

\* TOOLS of the modular server
ToolDescriptorsModular ==
  <<Descriptor("get_usage",
      "Get a complete overview of Z.AI account usage including quota limits, model token usage, and tool usage (web search, web reader). This is the recommended tool for a full usage summary.",
      <<HoursProperty("Number of hours to look back for usage data (default: 24). Quota limits are always current regardless of this value.")>>,
      <<>>),
    Descriptor("get_quota",
      "Get your Z.AI account quota limits, including token usage (5h window), MCP monthly usage, and percentage utilized.",
      <<>>, <<>>),
    Descriptor("get_model_usage",
      "Get token usage breakdown by model for your Z.AI account, including input and output tokens.",
      <<HoursProperty("Number of hours to look back (default: 24). Must be greater than 0.")>>,
      <<>>),
    Descriptor("get_tool_usage",
      "Get usage count for Z.AI tools including web search and web reader MCP.",
      <<HoursProperty("Number of hours to look back (default: 24). Must be greater than 0.")>>,
      <<>>),
    Descriptor("get_antigravity_quota",
      "Get Antigravity (Google Cloud Code) quota for all configured accounts. Returns available models and Gemini CLI quota across all accounts with a summary.",
      <<>>, <<>>),
    Descriptor("get_antigravity_account_quota",
      "Get Antigravity quota for a specific account by email or index (0-based).",
      <<Property("account", <<"string", "number">>, <<>>,
                 "Either the account email (string) or index (0, 1, 2, etc.).", <<>>)>>,
      <<"account">>)>>

\* TOOLS of the single-file server
ToolDescriptorsSingle ==
  <<Descriptor("get_usage",
      "Get a complete overview of Z.AI account usage including quota limits, model token usage, and tool usage (web search, web reader). This is the recommended tool for a full usage summary.",
      <<HoursProperty("Number of hours to look back for usage data (default: 24). Quota limits are always current regardless of this value.")>>,
      <<>>),
    Descriptor("get_quota",
      "Get current Z.AI account quota limits including token usage percentage (5-hour window) and MCP usage percentage (monthly).",
      <<>>, <<>>),
    Descriptor("get_model_usage",
      "Get Z.AI model token usage breakdown by model for a specified time period.",
      <<HoursProperty("Number of hours to look back (default: 24)")>>,
      <<>>),
    Descriptor("get_tool_usage",
      "Get Z.AI tool usage counts (web search and web reader) for a specified time period.",
      <<HoursProperty("Number of hours to look back (default: 24)")>>,
      <<>>),
    Descriptor("get_antigravity_quota",
      "Get Antigravity (Google Cloud Code) quota for ALL configured accounts. Shows remaining quota per model (Claude, Gemini) for each Google account, plus Gemini CLI quota. Also provides a summary showing which models have quota available across accounts.",
      <<>>, <<>>),
    Descriptor("get_antigravity_account_quota",
      "Get Antigravity quota for a SPECIFIC account by email address or account index (0-based). Shows Antigravity model quota and Gemini CLI quota for that single account.",
      <<Property("account", <<>>,
                 <<Alternative("string", "Account email address"),
                   Alternative("number", "Account index (0-based)")>>,
                 "The account to check - either an email address or a 0-based index number",
                 <<>>)>>,
      <<"account">>)>>

\* a single-file server that advertises five tools
ToolDescriptors_SingleShort(im) ==
  IF im = "modular" THEN ToolDescriptorsModular ELSE SubSeq(ToolDescriptorsSingle, 1, 5)

\* the descriptor list of a server
ToolDescriptors(im) ==
  IF im = "modular" THEN ToolDescriptorsModular ELSE ToolDescriptorsSingle

\* the names advertised by tools/list
TOOLS == {ToolDescriptorsModular[k].name : k \in 1..Len(ToolDescriptorsModular)}

\* the result of initialize: protocolVersion, then name and version of
\* serverInfo (capabilities is { tools: {} } in both servers)
InitializeResult(im) ==
  IF im = "modular" THEN <<"2024-11-05", "zai-usage", "2.0.0">>
  ELSE <<"2024-11-05", "zai-usage", "2.0.0">>

\* makeResponse(msg.id, result) of the initialize arm
Initialized(im, id) ==
  [makeResponse(id, "initialize", "") EXCEPT !.info = InitializeResult(im)]

\* makeResponse(msg.id, { tools: TOOLS })
ToolsListed(im, id) ==
  [makeResponse(id, "tools", "") EXCEPT !.tools = ToolDescriptors(im)]

\* the outbound calls to the usage-metering service a usage tool starts
UsageCalls(name) ==
  CASE name = "get_usage" -> {"quota", "model_usage", "tool_usage"}
    [] name = "get_quota" -> {"quota"}
    [] name = "get_model_usage" -> {"model_usage"}
    [] name = "get_tool_usage" -> {"tool_usage"}
    [] OTHER -> {}

\* the tools that validate their hours argument
TakesHours(name) == name \in {"get_usage", "get_model_usage", "get_tool_usage"}

CallNames == {"quota", "model_usage", "tool_usage"}

\* how an outbound call ends
CallOutcomes == {"ok", "HTTP 500", "Request timed out"}

\* ------------------------------------------------------------------------
\* Quota payloads and their parsing
\* ------------------------------------------------------------------------

\* the quotaInfo member of a model's info: t is "absent", "null", "number"
\* (any value that is not an object) or "object"; a remainingFraction that
\* is a number is held in thousandths
QuotaInfo(t, fraction, reset) ==
  [t |-> t, remainingFraction |-> fraction, resetTime |-> reset]

NoQuotaInfo == QuotaInfo("absent", JsUndefined, JsUndefined)

\* an entry of the models mapping: t is "null", "number" or "object"
ModelInfo(name, t, quotaInfo) == [name |-> name, t |-> t, quotaInfo |-> quotaInfo]

\* the body of a 200 response of fetchAvailableModels: t is "string" (text
\* that is not JSON), "null" or "object"; models is "absent", "null",
\* "number" or "object"
ModelsData(t, models, entries) == [t |-> t, models |-> models, entries |-> entries]

\* an item of the buckets array: t is "null", "number" or "object"
Bucket(t, modelId, fraction, reset) ==
  [t |-> t, modelId |-> modelId, remainingFraction |-> fraction, resetTime |-> reset]

\* the body of a 200 response of retrieveUserQuota: buckets is "absent",
\* "null", "number", "object" or "array"
BucketsData(t, buckets, items) == [t |-> t, buckets |-> buckets, items |-> items]

\* a percentage that drops the fractional part instead of rounding
RoundPct_Truncated(thousandths) == thousandths \div 10

\* Math.round(fraction * 100) for a fraction held in thousandths
RoundPct(thousandths) == (thousandths + 5) \div 10

\* an entry of antigravity_models or gemini_cli_quota
Entry(model, fraction, pct, reset) ==
  [model |-> model, remaining_fraction |-> fraction, remaining_pct |-> pct,
   reset_time |-> reset]

\* what a parser hands back: a list, or a TypeError thrown on the way
Parsed(list) == [threw |-> FALSE, list |-> list]
ParseThrew == [threw |-> TRUE, list |-> <<>>]

\* createAntigravityModelEntry of the modular server; reading a member of
\* null throws
createAntigravityModelEntry(info) ==
  LET q == IF info.t = "object" THEN info.quotaInfo ELSE NoQuotaInfo
      f == q.remainingFraction
      r == q.resetTime
  IN Entry(JsStr(info.name),
           IF q.t = "object" /\ f.t = "number" THEN f ELSE JsNull,
           IF q.t = "object" /\ f.t = "number" THEN JsNum(RoundPct(f.n)) ELSE JsNull,
           IF q.t = "object" /\ r.t = "string" THEN r ELSE JsNull)

\* TRUE when createAntigravityModelEntry throws: infoObj is null, or
\* quotaInfo is null (typeof null is "object")
EntryThrowsModular(info) ==
  info.t = "null" \/ (info.t = "object" /\ info.quotaInfo.t = "null")

\* parseAntigravityModels of the modular server
parseAntigravityModelsModular(data) ==
  IF data.t # "object" \/ data.models \in {"absent", "null", "number"}
  THEN Parsed(<<>>)
  ELSE IF \E k \in 1..Len(data.entries) : EntryThrowsModular(data.entries[k])
  THEN ParseThrew
  ELSE Parsed([k \in 1..Len(data.entries) |->
                 createAntigravityModelEntry(data.entries[k])])

\* the entry the single-file parseAntigravityModels builds: the quota fields
\* exist only when quotaInfo is truthy; a fraction that is not a number is
\* kept and its percentage is NaN
EntrySingle(info) ==
  LET q == info.quotaInfo
      f == q.remainingFraction
      r == q.resetTime
  IN IF info.t # "object" \/ q.t \in {"absent", "null"}
     THEN Entry(JsStr(info.name), JsUndefined, JsUndefined, JsUndefined)
     ELSE IF q.t = "number"
     THEN Entry(JsStr(info.name), JsNull, JsNull, JsNull)
     ELSE Entry(JsStr(info.name),
                IF f.t \in {"undefined", "null"} THEN JsNull ELSE f,
                IF f.t \in {"undefined", "null"} THEN JsNull
                ELSE IF f.t = "number" THEN JsNum(RoundPct(f.n)) ELSE JsNaN,
                IF r.t = "string" /\ r.s # "" THEN r ELSE JsNull)

\* parseAntigravityModels of the single-file server
parseAntigravityModelsSingle(data) ==
  IF data.t = "null" THEN ParseThrew
  ELSE IF data.t # "object" \/ data.models \in {"absent", "null", "number"}
  THEN Parsed(<<>>)
  ELSE IF \E k \in 1..Len(data.entries) : data.entries[k].t = "null"
  THEN ParseThrew
  ELSE Parsed([k \in 1..Len(data.entries) |-> EntrySingle(data.entries[k])])

parseAntigravityModels(im, data) ==
  IF im = "modular" THEN parseAntigravityModelsModular(data)
  ELSE parseAntigravityModelsSingle(data)

\* the positions of the items parseGeminiCliQuota keeps
RECURSIVE KeptItems(_, _)
KeptItems(items, k) ==
  IF k > Len(items) THEN <<>>
  ELSE IF items[k].t = "object" THEN <<items[k]>> \o KeptItems(items, k + 1)
  ELSE KeptItems(items, k + 1)

\* the entry of one bucket in the modular server
BucketEntryModular(b) ==
  Entry(IF b.modelId.t = "string" THEN b.modelId ELSE JsStr("unknown"),
        IF b.remainingFraction.t = "number" THEN b.remainingFraction ELSE JsNull,
        IF b.remainingFraction.t = "number"
        THEN JsNum(RoundPct(b.remainingFraction.n)) ELSE JsNull,
        IF b.resetTime.t = "string" THEN b.resetTime ELSE JsNull)

\* parseGeminiCliQuota of the modular server: items that are not objects are
\* skipped, anything but an array gives the empty list
parseGeminiCliQuotaModular(data) ==
  IF data.t # "object" \/ data.buckets # "array" THEN Parsed(<<>>)
  ELSE LET kept == KeptItems(data.items, 1)
       IN Parsed([k \in 1..Len(kept) |-> BucketEntryModular(kept[k])])

\* the entry of one bucket in the single-file server
BucketEntrySingle(b) ==
  IF b.t # "object"
  THEN Entry(JsStr("unknown"), JsNull, JsNull, JsNull)
  ELSE Entry(IF b.modelId.t = "string" /\ b.modelId.s # "" THEN b.modelId
             ELSE IF b.modelId.t = "number" /\ b.modelId.n # 0 THEN b.modelId
             ELSE JsStr("unknown"),
             IF b.remainingFraction.t \in {"undefined", "null"} THEN JsNull
             ELSE b.remainingFraction,
             IF b.remainingFraction.t \in {"undefined", "null"} THEN JsNull
             ELSE IF b.remainingFraction.t = "number"
             THEN JsNum(RoundPct(b.remainingFraction.n)) ELSE JsNaN,
             IF b.resetTime.t = "string" /\ b.resetTime.s # "" THEN b.resetTime
             ELSE JsNull)

\* parseGeminiCliQuota of the single-file server: reading a member of null
\* and iterating a value that is not iterable both throw
parseGeminiCliQuotaSingle(data) ==
  IF data.t = "null" THEN ParseThrew
  ELSE IF data.t # "object" \/ data.buckets \in {"absent", "null"} THEN Parsed(<<>>)
  ELSE IF data.buckets # "array" THEN ParseThrew
  ELSE IF \E k \in 1..Len(data.items) : data.items[k].t = "null" THEN ParseThrew
  ELSE Parsed([k \in 1..Len(data.items) |-> BucketEntrySingle(data.items[k])])

parseGeminiCliQuota(im, data) ==
  IF im = "modular" THEN parseGeminiCliQuotaModular(data)
  ELSE parseGeminiCliQuotaSingle(data)

\* ------------------------------------------------------------------------
\* State
\* ------------------------------------------------------------------------

VARIABLES
  impl,             \* "modular" (src/index.ts) or "single" (agent-usage-mcp.js)
  apiKey,           \* OC_ZAI_API_KEY is set in the environment
  clientSecret,     \* AG_CLIENT_SECRET is set in the environment
  store,            \* the accounts file as loadAccounts finds it
  inputLog,         \* the lines delivered by readline so far
  pendingRequests,  \* the in-flight counter
  stdinClosed,      \* the input-closed flag
  exited,           \* process.exit(0) has been called
  task,             \* per input line: where its line callback stands
  calls,            \* outbound calls in flight: <<line, call name>>
  started,          \* outbound calls ever started: <<line, call name>>
  failed,           \* outbound calls that failed: <<line, call name, message>>
  validHours,       \* per input line: the hours its usage calls were given
  pipe,             \* per input line: the per-account pipelines of its getAll
  toolResult,       \* per input line: what its quota tool returned, until written
  out,              \* the lines written to standard output, with their cause
  outAtClose,       \* Len(out) when the close signal arrived, -1 before
  unhandled         \* number of "Unhandled rejection" lines on standard error

vars == <<impl, apiKey, clientSecret, store, inputLog, pendingRequests,
          stdinClosed, exited, task, calls, started, failed, validHours, pipe,
          toolResult, out, outAtClose, unhandled>>

\* the process environment and the files it reads: nothing the server writes
environment == <<impl, apiKey, clientSecret, store>>

LineBounds == {MaxLines, MaxWideLines, MaxLiveLines, MaxHoursLines, MaxQuotaLines}

MaxSlots == CHOOSE m \in LineBounds : \A k \in LineBounds : k <= m

Slots == 1..MaxSlots

\* what a settled dispatch hands back to the line callback
NoValue == makeResponse(JsUndefined, "", "")
Idle == [pc |-> "idle", kind |-> "none", env |-> NoValue]
Returned(env) == [pc |-> "settled", kind |-> "string", env |-> env]
ReturnedNull == [pc |-> "settled", kind |-> "null", env |-> NoValue]
Thrown == [pc |-> "settled", kind |-> "throw", env |-> NoValue]
AwaitTool == [pc |-> "awaitTool", kind |-> "none", env |-> NoValue]
Done == [pc |-> "done", kind |-> "none", env |-> NoValue]

\* an entry of the accounts file: its email, its enabled member (true,
\* false or absent) and the truthiness of its refreshToken
AccountNamed(email, enabled, refreshToken) ==
  [email |-> email, enabled |-> enabled, refreshToken |-> refreshToken]

\* an enabled test that takes an absent member for false
IsEnabled_Truthy(account) == account.enabled = JsBool(1)

\* account.enabled !== false
IsEnabled(account) == account.enabled # JsBool(0)

\* an account of the quota specification, where no one looks at the email
Account(enabled, refreshToken) == AccountNamed("a@x", enabled, refreshToken)

\* the accounts file does not exist
MissingStore == [kind |-> "missing", accounts |-> <<>>]

\* what a quota tool returns: kind is "none" before it returns, "all" for
\* AllAccountsQuotaResult
ToolResult(kind, total, enabled, accounts, summary) ==
  [kind |-> kind, total_accounts |-> total, enabled_accounts |-> enabled,
   accounts |-> accounts, summary |-> summary]

\* no quota tool has returned
NoResult == ToolResult("none", 0, 0, <<>>, <<>>)

\* the state of the server after construction
InitServer ==
  /\ inputLog = <<>>
  /\ pendingRequests = 0
  /\ stdinClosed = FALSE
  /\ exited = FALSE
  /\ task = [i \in Slots |-> Idle]
  /\ calls = {}
  /\ started = {}
  /\ failed = {}
  /\ validHours = [i \in Slots |-> 0]
  /\ pipe = [i \in Slots |-> <<>>]
  /\ toolResult = [i \in Slots |-> NoResult]
  /\ out = <<>>
  /\ outAtClose = -1
  /\ unhandled = 0

\* a machine on which the quota tools were never set up
Init ==
  /\ impl \in {"modular", "single"}
  /\ apiKey \in BOOLEAN
  /\ clientSecret = FALSE
  /\ store = MissingStore
  /\ InitServer

\* checkExit without the test of the closed flag
checkExit_IgnoresClosed(closed, pending) == pending = 0

\* checkExit without the test of the in-flight counter
checkExit_IgnoresPending(closed, pending) == closed

\* checkExit that never exits
checkExit_Never(closed, pending) == FALSE

\* checkExit: the condition under which process.exit(0) is called
checkExit(closed, pending) == closed /\ pending = 0

\* ------------------------------------------------------------------------
\* Quota aggregator: the per-account pipeline
\* ------------------------------------------------------------------------

\* an outbound quota call of a pipeline: st is "none", "flight", "failed"
\* (rejected, with the error's message) or "ok" (status 200, with the body)
NoCall == [st |-> "none", message |-> "", data |-> ModelsData("null", "absent", <<>>)]
CallInFlight == [NoCall EXCEPT !.st = "flight"]
CallFailed(message) == [NoCall EXCEPT !.st = "failed", !.message = message]
CallOk(data) == [st |-> "ok", message |-> "", data |-> data]

\* an entry of errors: what it says before the colon, and the message
ErrorText(prefix, message) == <<prefix, message>>

\* AccountQuotaResult
AccountQuotaResult(index, enabled, errors, models, buckets) ==
  [account_index |-> index, enabled |-> enabled, errors |-> errors,
   antigravity_models |-> models, gemini_cli_quota |-> buckets]

\* one call of getAntigravityAccountQuota: pc is "refresh" (awaiting the
\* token), "quota" (awaiting Promise.allSettled), "resolved", "rejected" or
\* "spent" (settled, and nothing holds its value any more); net is the set
\* of outbound calls it has started
Pipeline(pc, token, ag, gc, net, result) ==
  [pc |-> pc, token |-> token, ag |-> ag, gc |-> gc, net |-> net, result |-> result]

Spent ==
  Pipeline("spent", FALSE, NoCall, NoCall, {},
           AccountQuotaResult(0, FALSE, <<>>, <<>>, <<>>))

\* a pipeline that returns at once with one error
ShortCircuit(index, enabled, text) ==
  Pipeline("resolved", FALSE, NoCall, NoCall, {},
           AccountQuotaResult(index, enabled, <<ErrorText(text, "")>>, <<>>, <<>>))

NoClientSecret == "AG_CLIENT_SECRET environment variable is not set"

\* a pipeline that looks for the refresh token before the enabled flag
startPipeline_TokenFirst(account, index) ==
  IF ~account.refreshToken
  THEN ShortCircuit(index, IsEnabled(account), "No refresh token stored for this account")
  ELSE IF ~IsEnabled(account)
  THEN ShortCircuit(index, FALSE, "Account is disabled")
  ELSE IF ~clientSecret
  THEN Pipeline("resolved", FALSE, NoCall, NoCall, {},
                AccountQuotaResult(index, TRUE,
                  <<ErrorText("Token refresh failed", NoClientSecret)>>, <<>>, <<>>))
  ELSE Pipeline("refresh", FALSE, NoCall, NoCall, {"refresh"},
                AccountQuotaResult(index, TRUE, <<>>, <<>>, <<>>))

\* getAntigravityAccountQuota up to its first suspension; index is the
\* position in the accounts array, counted from 0
startPipeline(account, index) ==
  IF ~IsEnabled(account)
  THEN ShortCircuit(index, FALSE, "Account is disabled")
  ELSE IF ~account.refreshToken
  THEN ShortCircuit(index, TRUE, "No refresh token stored for this account")
  ELSE IF ~clientSecret
  THEN \* refreshAccessToken throws before it makes the request
       Pipeline("resolved", FALSE, NoCall, NoCall, {},
                AccountQuotaResult(index, TRUE,
                  <<ErrorText("Token refresh failed", NoClientSecret)>>, <<>>, <<>>))
  ELSE Pipeline("refresh", FALSE, NoCall, NoCall, {"refresh"},
                AccountQuotaResult(index, TRUE, <<>>, <<>>, <<>>))

\* a pipeline that goes on to the quota calls whatever the token request gave
afterRefresh_Regardless(p, outcome) ==
  [p EXCEPT !.pc = "quota", !.token = (outcome = "ok"), !.ag = CallInFlight,
            !.gc = CallInFlight, !.net = p.net \cup {"models", "buckets"}]

\* the token request of a pipeline has ended
afterRefresh(p, outcome) ==
  IF outcome = "ok"
  THEN [p EXCEPT !.pc = "quota", !.token = TRUE, !.ag = CallInFlight,
                 !.gc = CallInFlight, !.net = p.net \cup {"models", "buckets"}]
  ELSE [p EXCEPT !.pc = "resolved",
                 !.result.errors = <<ErrorText("Token refresh failed", outcome)>>]

\* what follows Promise.allSettled: each fulfilled value is parsed, each
\* rejection becomes an error; a parser that throws rejects the pipeline
afterAllSettled(im, p) ==
  LET models == IF p.ag.st = "ok" THEN parseAntigravityModels(im, p.ag.data)
                ELSE Parsed(<<>>)
      buckets == IF p.gc.st = "ok" THEN parseGeminiCliQuota(im, p.gc.data)
                 ELSE Parsed(<<>>)
      agError == IF p.ag.st = "failed"
                 THEN <<ErrorText("Antigravity models", p.ag.message)>> ELSE <<>>
      gcError == IF p.gc.st = "failed"
                 THEN <<ErrorText("Gemini CLI quota", p.gc.message)>> ELSE <<>>
  IN IF models.threw \/ buckets.threw
     THEN [p EXCEPT !.pc = "rejected"]
     ELSE [p EXCEPT !.pc = "resolved",
                    !.result.errors = agError \o gcError,
                    !.result.antigravity_models = models.list,
                    !.result.gemini_cli_quota = buckets.list]

\* one of the two quota calls of a pipeline has ended; which is "models" or
\* "buckets", settled is what the call left behind
afterQuotaCall(im, p, which, settled) ==
  LET q == IF which = "models" THEN [p EXCEPT !.ag = settled]
           ELSE [p EXCEPT !.gc = settled]
  IN IF q.ag.st = "flight" \/ q.gc.st = "flight" THEN q ELSE afterAllSettled(im, q)

\* the pipeline has settled
Settled(p) == p.pc \in {"resolved", "rejected", "spent"}

\* a loadAccounts that returns an empty list
loadAccountsError_EmptyAllowed(im) ==
  CASE store.kind = "missing" -> "Antigravity accounts file not found"
    [] store.kind = "invalid" ->
         IF im = "modular" THEN "Invalid accounts file"
         ELSE "No Antigravity accounts configured"
    [] OTHER -> ""

\* the error loadAccounts throws, "" when it returns the accounts
loadAccountsError(im) ==
  CASE store.kind = "missing" -> "Antigravity accounts file not found"
    [] store.kind = "invalid" ->
         IF im = "modular" THEN "Invalid accounts file"
         ELSE "No Antigravity accounts configured"
    [] store.accounts = <<>> -> "No Antigravity accounts configured"
    [] OTHER -> ""

\* the pipelines getAntigravityQuotaAll starts: accounts.map in array order
startAll ==
  [a \in 1..Len(store.accounts) |-> startPipeline(store.accounts[a], a - 1)]

\* Promise.all over the pipelines of one call, seen by the awaiting tool:
\* "rejected" as soon as one pipeline has rejected, "resolved" when all
\* have resolved, "pending" otherwise
promiseAll(ps) ==
  IF \E a \in 1..Len(ps) : ps[a].pc = "rejected" THEN "rejected"
  ELSE IF \A a \in 1..Len(ps) : ps[a].pc = "resolved" THEN "resolved"
  ELSE "pending"

\* ------------------------------------------------------------------------
\* Quota aggregator: the cross-account summary
\* ------------------------------------------------------------------------

\* a property key of modelSummary: the prefix and the model converted to a
\* string
SummaryKey(prefix, model) == <<prefix, TemplateString(model)>>

\* a member of modelSummary
SummaryEntry(key, best, available) ==
  [key |-> key, best_remaining_pct |-> best, accounts_available |-> available]

\* what the two inner loops visit for one account's result, in order: the
\* key and the remaining_pct of each entry; a result that is not enabled is
\* skipped
VisitedOf(r) ==
  IF ~r.enabled THEN <<>>
  ELSE [k \in 1..Len(r.antigravity_models) |->
          [key |-> SummaryKey("", r.antigravity_models[k].model),
           pct |-> r.antigravity_models[k].remaining_pct]]
       \o [k \in 1..Len(r.gemini_cli_quota) |->
            [key |-> SummaryKey("gemini-cli:", r.gemini_cli_quota[k].model),
             pct |-> r.gemini_cli_quota[k].remaining_pct]]

\* everything the outer loop visits, from result k on
RECURSIVE Visited(_, _)
Visited(results, k) ==
  IF k > Len(results) THEN <<>>
  ELSE VisitedOf(results[k]) \o Visited(results, k + 1)

\* Math.max of two integers
MathMax(x, y) == IF x >= y THEN x ELSE y

\* a loop body that counts every entry whose remaining_pct is a number
AddToSummary_CountsZero(s, e) ==
  LET known == \E j \in 1..Len(s) : s[j].key = e.key
      s1 == IF known THEN s ELSE Append(s, SummaryEntry(e.key, -1, 0))
  IN IF e.pct.t = "number"
     THEN [j \in 1..Len(s1) |->
             IF s1[j].key = e.key
             THEN SummaryEntry(e.key, MathMax(s1[j].best_remaining_pct, e.pct.n),
                               s1[j].accounts_available + 1)
             ELSE s1[j]]
     ELSE s1

\* a loop body that takes the best over every entry whose remaining_pct is a
\* number, counted or not
AddToSummary_BestUncounted(s, e) ==
  LET known == \E j \in 1..Len(s) : s[j].key = e.key
      s1 == IF known THEN s ELSE Append(s, SummaryEntry(e.key, -1, 0))
  IN IF e.pct.t = "number"
     THEN [j \in 1..Len(s1) |->
             IF s1[j].key = e.key
             THEN SummaryEntry(e.key, MathMax(s1[j].best_remaining_pct, e.pct.n),
                               s1[j].accounts_available + (IF e.pct.n > 0 THEN 1 ELSE 0))
             ELSE s1[j]]
     ELSE s1

\* one pass of the loop body: the key is created with best_remaining_pct -1
\* and accounts_available 0 when it is new; an entry whose remaining_pct is a
\* number above 0 is counted and may raise the best
AddToSummary(s, e) ==
  LET known == \E j \in 1..Len(s) : s[j].key = e.key
      s1 == IF known THEN s ELSE Append(s, SummaryEntry(e.key, -1, 0))
  IN IF e.pct.t = "number" /\ e.pct.n > 0
     THEN [j \in 1..Len(s1) |->
             IF s1[j].key = e.key
             THEN SummaryEntry(e.key, MathMax(s1[j].best_remaining_pct, e.pct.n),
                               s1[j].accounts_available + 1)
             ELSE s1[j]]
     ELSE s1

\* the loops over what is visited, from position k on
RECURSIVE FoldSummary(_, _, _)
FoldSummary(s, visited, k) ==
  IF k > Len(visited) THEN s
  ELSE FoldSummary(AddToSummary(s, visited[k]), visited, k + 1)

\* modelSummary for the results of the pipelines, its members in the order
\* in which their keys were created
buildSummary(results) == FoldSummary(<<>>, Visited(results, 1), 1)

\* accounts.filter((a) => a.enabled !== false).length
RECURSIVE EnabledAccounts(_, _)
EnabledAccounts(accounts, k) ==
  IF k > Len(accounts) THEN 0
  ELSE (IF IsEnabled(accounts[k]) THEN 1 ELSE 0) + EnabledAccounts(accounts, k + 1)

\* the value getAntigravityQuotaAll returns over the resolved pipelines ps
getAllResult(ps) ==
  LET results == [a \in 1..Len(ps) |-> ps[a].result]
  IN ToolResult("all", Len(store.accounts), EnabledAccounts(store.accounts, 1),
                results, buildSummary(results))

\* ------------------------------------------------------------------------
\* Quota aggregator: one account by identifier
\* ------------------------------------------------------------------------

\* /^\\d+$/.test(str) for the strings the model sends
NUMERIC_STRING_REGEX(str) == str \in {"0", "1", "01", "5", "24", "999"}

\* str.toLowerCase() for the strings the model sends
toLowerCase(str) ==
  CASE str = "A@X" -> "a@x"
    [] str = "B@X" -> "b@x"
    [] OTHER -> str

\* accounts.findIndex: the first account, counted from 0, whose email is not
\* empty and equals the identifier's string once both are in lower case; -1
\* when there is none
RECURSIVE findIndex(_, _, _)
findIndex(accounts, identifier, k) ==
  IF k > Len(accounts) THEN -1
  ELSE IF /\ accounts[k].email # ""
          /\ toLowerCase(accounts[k].email) = toLowerCase(TemplateString(identifier))
  THEN k - 1
  ELSE findIndex(accounts, identifier, k + 1)

\* an index resolution that takes every string for an email
resolveIndex_NoDigits(identifier, accounts) ==
  IF identifier.t = "number"
  THEN [found |-> TRUE, index |-> identifier.n, whole |-> identifier.s # "half"]
  ELSE [found |-> findIndex(accounts, identifier, 1) # -1,
        index |-> findIndex(accounts, identifier, 1), whole |-> TRUE]

\* the index getAntigravityQuotaSingle resolves its identifier to: a number
\* as it is, a string of digits as its number, anything else by email; found
\* is FALSE when no email matches; the index is index when whole is TRUE and
\* index + 1/2 otherwise
resolveIndex(identifier, accounts) ==
  IF identifier.t = "number"
  THEN [found |-> TRUE, index |-> identifier.n, whole |-> identifier.s # "half"]
  ELSE IF identifier.t = "string" /\ NUMERIC_STRING_REGEX(identifier.s)
  THEN [found |-> TRUE, index |-> StrToNumber(identifier.s).n, whole |-> TRUE]
  ELSE [found |-> findIndex(accounts, identifier, 1) # -1,
        index |-> findIndex(accounts, identifier, 1), whole |-> TRUE]

\* index < 0 || index >= accounts.length; for whole numbers k and n,
\* k + 1/2 < 0 exactly when k < 0, and k + 1/2 >= n exactly when k >= n
OutOfRange(index, accounts) == index < 0 \/ index >= Len(accounts)

\* an array read that rounds its index down
accountAt_Floor(accounts, r) == r.index + 1

\* accounts[index] for an index in range: the position of the element in
\* the sequence, 0 for undefined, which a property name that is not a
\* whole number gives
accountAt(accounts, r) == IF r.whole THEN r.index + 1 ELSE 0

\* the pipeline getAntigravityQuotaSingle starts, none when it throws
\* first; getAntigravityAccountQuota called with undefined throws when it
\* reads account.email
startOne(im, identifier) ==
  LET r == resolveIndex(identifier, store.accounts)
  IN IF loadAccountsError(im) # "" \/ ~r.found \/ OutOfRange(r.index, store.accounts)
     THEN <<>>
     ELSE IF accountAt(store.accounts, r) = 0 THEN <<>>
     ELSE <<startPipeline(store.accounts[accountAt(store.accounts, r)], r.index)>>

\* the value a quota tool returns over its resolved pipelines: getAll its
\* AllAccountsQuotaResult, getOne the result of its one pipeline
quotaToolResult(msg, ps) ==
  IF msg.name = "get_antigravity_quota" THEN getAllResult(ps)
  ELSE ToolResult("one", 0, 0, <<ps[1].result>>, <<>>)

\* ------------------------------------------------------------------------
\* Protocol dispatcher
\* ------------------------------------------------------------------------

\* the result of the tool once every outbound call has succeeded
ToolSucceeded(msg) == Returned(makeResponse(msg.id, "content", msg.name))

\* a catch arm that lets the error escape the dispatcher
ToolFailed_Escapes(msg, message) == Thrown

\* the catch arm: the error's message under the application error code
ToolFailed(msg, message) ==
  Returned(makeError(msg.id, ApplicationErrorCode, message, msg.name))

\* the message of the error thrown when the usage credential is missing
NoApiKey == "OC_ZAI_API_KEY environment variable is not set"

\* validateHours throws: the message names the offending value
InvalidHours(msg) ==
  Returned(makeError(msg.id, ApplicationErrorCode, "Invalid hours value",
                     TemplateString(msg.hours)))

\* a result envelope whose content is an object holding only an error text
ErrorContent(msg) == Returned(makeResponse(msg.id, "error content", msg.name))

\* the arm the switch of executeTool takes: the handler it calls, or "throw"
\* for the default arm
executeToolArm(name) ==
  CASE name = "get_usage" -> "getFullUsage"
    [] name = "get_quota" -> "getQuota"
    [] name = "get_model_usage" -> "getModelUsage"
    [] name = "get_tool_usage" -> "getToolUsage"
    [] name = "get_antigravity_quota" -> "getAntigravityQuota"
    [] name = "get_antigravity_account_quota" -> "getAntigravityAccountQuota"
    [] OTHER -> "throw"

\* an executeTool whose switch has no arm for the account tool
executeTool_NoAccountArm(name) ==
  executeToolArm(name) \notin {"throw", "getAntigravityAccountQuota"}

\* executeTool: TRUE when the name reaches a handler, FALSE when the switch
\* falls to its default arm ("Unknown tool")
executeTool(name) == executeToolArm(name) # "throw"

\* a getAntigravityQuotaAll that looks for the client secret itself and
\* throws when it is missing
getAntigravityQuotaAll_SecretFatal(im, msg) ==
  IF loadAccountsError(im) # "" THEN ToolFailed(msg, loadAccountsError(im))
  ELSE IF ~clientSecret THEN ToolFailed(msg, NoClientSecret)
  ELSE IF promiseAll(startAll) = "resolved" THEN ToolSucceeded(msg)
  ELSE AwaitTool

\* getAntigravityQuotaAll up to its first suspension: loadAccounts may
\* throw, and Promise.all is settled at once when no pipeline suspends
getAntigravityQuotaAll(im, msg) ==
  IF loadAccountsError(im) # "" THEN ToolFailed(msg, loadAccountsError(im))
  ELSE IF promiseAll(startAll) = "resolved" THEN ToolSucceeded(msg)
  ELSE AwaitTool

\* throw new Error(`Account not found: ${identifier}`)
AccountNotFound(msg) ==
  Returned(makeError(msg.id, ApplicationErrorCode, "Account not found",
                     TemplateString(msg.account)))

\* throw new Error(`Account index ${index} out of range (...)`)
IndexOutOfRange(msg, r) ==
  Returned(makeError(msg.id, ApplicationErrorCode, "Account index out of range",
                     IF r.whole THEN NumToString(r.index) ELSE "number"))

\* the read of accounts[index] gave undefined: the modular server throws
\* new Error(`Account at index ${index} not found`), the single-file server
\* calls getAntigravityAccountQuota, which throws a TypeError
AccountUndefined(im, msg) ==
  IF im = "modular" THEN ToolFailed(msg, "Account at index not found")
  ELSE ToolFailed(msg, "TypeError")

\* getAntigravityQuotaSingle up to its first suspension
getAntigravityQuotaSingle(im, msg) ==
  LET r == resolveIndex(msg.account, store.accounts)
  IN IF loadAccountsError(im) # "" THEN ToolFailed(msg, loadAccountsError(im))
     ELSE IF ~r.found THEN AccountNotFound(msg)
     ELSE IF OutOfRange(r.index, store.accounts) THEN IndexOutOfRange(msg, r)
     ELSE IF accountAt(store.accounts, r) = 0 THEN AccountUndefined(im, msg)
     ELSE IF promiseAll(startOne(im, msg.account)) = "resolved" THEN ToolSucceeded(msg)
     ELSE AwaitTool

\* the tools/call arm with the unknown-tool convention of the other server
ToolCallModular_MethodNotFound(msg) ==
  IF ~msg.hasParams \/ msg.name \notin TOOLS
  THEN Returned(makeError(msg.id, MethodNotFoundCode, "Unknown tool", msg.name))
  ELSE AwaitTool

\* the tools/call arm of the modular handleMessage, up to its first await
ToolCallModular(msg) ==
  IF ~msg.hasParams
  THEN \* params.name of undefined throws a TypeError inside the try
       ToolFailed(msg, "TypeError")
  ELSE IF ~executeTool(msg.name)
  THEN ToolFailed(msg, "Unknown tool")
  ELSE IF msg.name = "get_antigravity_quota"
  THEN getAntigravityQuotaAll("modular", msg)
  ELSE IF msg.name = "get_antigravity_account_quota"
  THEN getAntigravityQuotaSingle("modular", msg)
  ELSE IF TakesHours(msg.name) /\ ~ValidateHoursModular(msg.hours).ok
  THEN InvalidHours(msg)
  ELSE IF UsageCalls(msg.name) # {} /\ ~apiKey
  THEN \* getAuthHeaders throws before the request is made
       ToolFailed(msg, NoApiKey)
  ELSE AwaitTool

\* the tools/call arm of the single-file handleMessage, up to its first await
ToolCallSingle(msg) ==
  IF ~msg.hasParams
  THEN \* msg.params?.name is undefined: the inner switch takes its default
       Returned(makeError(msg.id, MethodNotFoundCode, "Unknown tool", "undefined"))
  ELSE IF msg.name \notin TOOLS
  THEN Returned(makeError(msg.id, MethodNotFoundCode, "Unknown tool", msg.name))
  ELSE IF msg.name = "get_antigravity_quota"
  THEN getAntigravityQuotaAll("single", msg)
  ELSE IF msg.name = "get_antigravity_account_quota"
  THEN getAntigravityQuotaSingle("single", msg)
  ELSE IF UsageCalls(msg.name) # {} /\ ~apiKey
  THEN \* if (!API_KEY) return { error: ... }
       ErrorContent(msg)
  ELSE AwaitTool

\* a test for null in place of undefined
IsNotification_NullOnly(msg) == msg.id = JsNull

\* a loose comparison (msg.id == undefined), which null satisfies too
IsNotification_Loose(msg) == msg.id \in {JsUndefined, JsNull}

\* TRUE when the message has no id member (msg.id === undefined)
IsNotification(msg) == msg.id = JsUndefined

\* a dispatcher that advertises no tools while another request is in flight
handleMessage_ListEmptyWhenBusy(im, msg) ==
  IF msg.kind = "null" THEN Thrown
  ELSE IF IsNotification(msg) THEN ReturnedNull
  ELSE CASE msg.method = "initialize" ->
              Returned(Initialized(im, msg.id))
         [] msg.method = "ping" ->
              Returned(makeResponse(msg.id, "empty", ""))
         [] msg.method = "tools/list" ->
              IF pendingRequests > 0 THEN Returned(makeResponse(msg.id, "tools", ""))
              ELSE Returned(ToolsListed(im, msg.id))
         [] msg.method = "tools/call" ->
              IF im = "modular" THEN ToolCallModular(msg) ELSE ToolCallSingle(msg)
         [] OTHER ->
              Returned(makeError(msg.id, MethodNotFoundCode, "Method not found", msg.method))

\* handleMessage whose default arm answers under the application error code
handleMessage_DefaultApplicationError(im, msg) ==
  IF msg.kind = "null" THEN Thrown
  ELSE IF IsNotification(msg) THEN ReturnedNull
  ELSE CASE msg.method = "initialize" ->
              Returned(Initialized(im, msg.id))
         [] msg.method = "ping" ->
              Returned(makeResponse(msg.id, "empty", ""))
         [] msg.method = "tools/list" ->
              Returned(ToolsListed(im, msg.id))
         [] msg.method = "tools/call" ->
              IF im = "modular" THEN ToolCallModular(msg) ELSE ToolCallSingle(msg)
         [] OTHER ->
              Returned(makeError(msg.id, ApplicationErrorCode, "Method not found", msg.method))

\* handleMessage, run up to its first suspension: what the line callback's
\* await will see, or AwaitTool when outbound calls have been started
handleMessage(im, msg) ==
  IF msg.kind = "null" THEN Thrown   \* reading .id of null throws
  ELSE IF IsNotification(msg) THEN ReturnedNull
  ELSE CASE msg.method = "initialize" ->
              Returned(Initialized(im, msg.id))
         [] msg.method = "ping" ->
              Returned(makeResponse(msg.id, "empty", ""))
         [] msg.method = "tools/list" ->
              Returned(ToolsListed(im, msg.id))
         [] msg.method = "tools/call" ->
              IF im = "modular" THEN ToolCallModular(msg) ELSE ToolCallSingle(msg)
         [] OTHER ->
              Returned(makeError(msg.id, MethodNotFoundCode, "Method not found", msg.method))

\* a get_usage that starts its quota call before it validates the hours
CallsStarted_QuotaFirst(im, msg) ==
  IF handleMessage(im, msg) = AwaitTool THEN UsageCalls(msg.name)
  ELSE IF msg.kind = "object" /\ msg.hasParams /\ msg.name = "get_usage" THEN {"quota"}
  ELSE {}

\* the outbound calls handleMessage starts before it first suspends
CallsStarted(im, msg) ==
  IF handleMessage(im, msg) = AwaitTool THEN UsageCalls(msg.name) ELSE {}

\* the pipelines handleMessage starts before it first suspends
PipelinesStarted(im, msg) ==
  IF /\ msg.kind = "object"
     /\ ~IsNotification(msg)
     /\ msg.method = "tools/call"
     /\ msg.hasParams
  THEN IF msg.name = "get_antigravity_quota" /\ loadAccountsError(im) = ""
       THEN startAll
       ELSE IF msg.name = "get_antigravity_account_quota"
       THEN startOne(im, msg.account)
       ELSE <<>>
  ELSE <<>>

\* what the quota tool of the message has returned when handleMessage first
\* suspends or settles
ResultAtDispatch(im, msg) ==
  IF PipelinesStarted(im, msg) # <<>> /\ promiseAll(PipelinesStarted(im, msg)) = "resolved"
  THEN quotaToolResult(msg, PipelinesStarted(im, msg))
  ELSE NoResult

\* the hours handed to fetchModelUsage and fetchToolUsage, 0 when the
\* message starts neither
HoursGiven(im, msg) ==
  IF handleMessage(im, msg) = AwaitTool /\ TakesHours(msg.name)
  THEN ValidateHours(im, msg.hours).value
  ELSE 0

\* ------------------------------------------------------------------------
\* Stdio transport
\* ------------------------------------------------------------------------

\* sendMessage: one line on standard output; line is the input line that
\* caused it, nIn the number of input lines read when it was written
sendMessage(i, env) ==
  LET n == IF i > Len(inputLog) THEN i ELSE Len(inputLog)
  IN Append(out, [line |-> i, nIn |-> n, env |-> env])

\* a line callback that hands blank lines to JSON.parse
OnLine_BlankParsed(l, limit) ==
  /\ ~exited
  /\ ~stdinClosed
  /\ Len(inputLog) < limit
  /\ LET i == Len(inputLog) + 1 IN
     /\ inputLog' = Append(inputLog, l)
     /\ IF l.kind \in {"blank", "garbage"}
        THEN /\ out' = sendMessage(i, makeParseError)
             /\ UNCHANGED <<pendingRequests, task, calls, started, validHours, pipe,
                            toolResult>>
        ELSE /\ pendingRequests' = pendingRequests + 1
             /\ task' = [task EXCEPT ![i] = handleMessage(impl, l)]
             /\ validHours' = [validHours EXCEPT ![i] = HoursGiven(impl, l)]
             /\ pipe' = [pipe EXCEPT ![i] = PipelinesStarted(impl, l)]
             /\ toolResult' = [toolResult EXCEPT ![i] = ResultAtDispatch(impl, l)]
             /\ calls' = calls \cup {<<i, c>> : c \in CallsStarted(impl, l)}
             /\ started' = started \cup {<<i, c>> : c \in CallsStarted(impl, l)}
             /\ UNCHANGED out
  /\ UNCHANGED <<environment, stdinClosed, exited, failed, outAtClose, unhandled>>

\* rl.on("line"): the callback up to its first await
OnLine(l, limit) ==
  /\ ~exited
  /\ ~stdinClosed
  /\ Len(inputLog) < limit
  /\ LET i == Len(inputLog) + 1 IN
     /\ inputLog' = Append(inputLog, l)
     /\ IF l.kind = "blank"
        THEN UNCHANGED <<pendingRequests, task, calls, started, validHours, pipe,
                         toolResult, out>>
        ELSE IF l.kind = "garbage"
        THEN /\ out' = sendMessage(i, makeParseError)
             /\ UNCHANGED <<pendingRequests, task, calls, started, validHours, pipe,
                            toolResult>>
        ELSE /\ pendingRequests' = pendingRequests + 1
             /\ task' = [task EXCEPT ![i] = handleMessage(impl, l)]
             /\ validHours' = [validHours EXCEPT ![i] = HoursGiven(impl, l)]
             /\ pipe' = [pipe EXCEPT ![i] = PipelinesStarted(impl, l)]
             /\ toolResult' = [toolResult EXCEPT ![i] = ResultAtDispatch(impl, l)]
             /\ calls' = calls \cup {<<i, c>> : c \in CallsStarted(impl, l)}
             /\ started' = started \cup {<<i, c>> : c \in CallsStarted(impl, l)}
             /\ UNCHANGED out
  /\ UNCHANGED <<environment, stdinClosed, exited, failed, outAtClose, unhandled>>

\* an outbound call of the tool of line i ends: Promise.all rejects on the
\* first failure and resolves when the last call has succeeded
CallCompletes(i, c, outcome) ==
  /\ ~exited
  /\ <<i, c>> \in calls
  /\ calls' = calls \ {<<i, c>>}
  /\ failed' = IF outcome # "ok" THEN failed \cup {<<i, c, outcome>>} ELSE failed
  /\ task' =
       IF task[i].pc # "awaitTool" THEN task
       ELSE IF outcome # "ok"
       THEN [task EXCEPT ![i] = ToolFailed(inputLog[i], outcome)]
       ELSE IF \E d \in CallNames : <<i, d>> \in calls'
       THEN task
       ELSE [task EXCEPT ![i] = ToolSucceeded(inputLog[i])]
  /\ UNCHANGED <<environment, inputLog, pendingRequests, stdinClosed, exited,
                 started, validHours, pipe, toolResult, out, outAtClose, unhandled>>

\* the pipelines no one waits for any more give up their values
Collect(ps) == [a \in 1..Len(ps) |-> IF Settled(ps[a]) THEN Spent ELSE ps[a]]

\* a line callback that drops the response
writeResponse_Dropped(i) == out

\* if (response) sendMessage(response)
writeResponse(i) ==
  IF task[i].kind = "string" THEN sendMessage(i, task[i].env) ELSE out

\* a process that a rejected line callback brings down
Resume_ExitsOnThrow(i) ==
  /\ ~exited
  /\ task[i].pc = "settled"
  /\ out' = writeResponse(i)
  /\ pendingRequests' = pendingRequests - 1
  /\ exited' = (checkExit(stdinClosed, pendingRequests') \/ task[i].kind = "throw")
  /\ unhandled' = unhandled
  /\ task' = [task EXCEPT ![i] = Done]
  /\ pipe' = [pipe EXCEPT ![i] = Collect(pipe[i])]
  /\ toolResult' = [toolResult EXCEPT ![i] = NoResult]
  /\ UNCHANGED <<environment, inputLog, stdinClosed, calls, started, failed,
                 validHours, outAtClose>>

\* a line callback whose decrement is skipped when the dispatch threw
Resume_LeaksOnThrow(i) ==
  /\ ~exited
  /\ task[i].pc = "settled"
  /\ out' = writeResponse(i)
  /\ pendingRequests' = IF task[i].kind = "throw" THEN pendingRequests
                        ELSE pendingRequests - 1
  /\ exited' = checkExit(stdinClosed, pendingRequests')
  /\ unhandled' = IF task[i].kind = "throw" /\ ~exited' THEN unhandled + 1 ELSE unhandled
  /\ task' = [task EXCEPT ![i] = Done]
  /\ pipe' = [pipe EXCEPT ![i] = Collect(pipe[i])]
  /\ toolResult' = [toolResult EXCEPT ![i] = NoResult]
  /\ UNCHANGED <<environment, inputLog, stdinClosed, calls, started, failed,
                 validHours, outAtClose>>

\* a line callback that resumes only when every earlier line has left
Resume_InArrivalOrder(i) ==
  /\ ~exited
  /\ task[i].pc = "settled"
  /\ \A j \in 1..(i - 1) : task[j].pc \in {"idle", "done"}
  /\ out' = writeResponse(i)
  /\ pendingRequests' = pendingRequests - 1
  /\ exited' = checkExit(stdinClosed, pendingRequests')
  /\ unhandled' = IF task[i].kind = "throw" /\ ~exited' THEN unhandled + 1 ELSE unhandled
  /\ task' = [task EXCEPT ![i] = Done]
  /\ pipe' = [pipe EXCEPT ![i] = Collect(pipe[i])]
  /\ toolResult' = [toolResult EXCEPT ![i] = NoResult]
  /\ UNCHANGED <<environment, inputLog, stdinClosed, calls, started, failed,
                 validHours, outAtClose>>

\* the line callback resumes after its await: write the response if there is
\* one, then the finally block: decrement and checkExit
Resume(i) ==
  /\ ~exited
  /\ task[i].pc = "settled"
  /\ out' = writeResponse(i)
  /\ pendingRequests' = pendingRequests - 1
  /\ exited' = checkExit(stdinClosed, pendingRequests')
  /\ unhandled' = IF task[i].kind = "throw" /\ ~exited' THEN unhandled + 1 ELSE unhandled
  /\ task' = [task EXCEPT ![i] = Done]
  /\ pipe' = [pipe EXCEPT ![i] = Collect(pipe[i])]
  /\ toolResult' = [toolResult EXCEPT ![i] = NoResult]
  /\ UNCHANGED <<environment, inputLog, stdinClosed, calls, started, failed,
                 validHours, outAtClose>>

\* rl.on("close")
OnClose ==
  /\ ~exited
  /\ ~stdinClosed
  /\ stdinClosed' = TRUE
  /\ exited' = checkExit(stdinClosed', pendingRequests)
  /\ outAtClose' = Len(out)
  /\ UNCHANGED <<environment, inputLog, pendingRequests, task, calls, started,
                 failed, validHours, pipe, toolResult, out, unhandled>>

\* everything the server does by itself
Server ==
  \/ \E i \in Slots, c \in CallNames, o \in CallOutcomes : CallCompletes(i, c, o)
  \/ \E i \in Slots : Resume(i)

\* the transport specification: few kinds of line, several lines in flight
Next ==
  \/ \E l \in TransportLines : OnLine(l, MaxLines)
  \/ OnClose
  \/ Server

Spec == Init /\ [][Next]_vars

\* the lines the peer may send in the independence specification: requests
\* that may be sent twice, alone or while another is in flight
IndependentLines ==
  {NullLine, Plain(JsNum(1), "tools/list"), Plain(JsNum(2), "initialize"),
   ToolCall(JsNum(1), "get_quota", JsUndefined),
   ToolCall(JsNum(2), "get_model_usage", JsNum(-1)),
   ToolCall(JsNum(1), "bogus_tool", JsUndefined)}

\* the independence specification
NextIndependent ==
  \/ \E l \in IndependentLines : OnLine(l, MaxLines)
  \/ OnClose
  \/ Server

SpecIndependent == Init /\ [][NextIndependent]_vars

\* the modular server alone
InitModular == Init /\ impl = "modular"

\* the single-file server alone
InitSingle == Init /\ impl = "single"

\* the dispatcher specification: every line of Lines
NextDispatch ==
  \/ \E l \in Lines : OnLine(l, MaxWideLines)
  \/ OnClose
  \/ Server

SpecDispatch == Init /\ [][NextDispatch]_vars

\* the tool names the peer tries in the registry specification: the six
\* registered ones and names that are close to them
NamesTried ==
  {"get_usage", "get_quota", "get_model_usage", "get_tool_usage",
   "get_antigravity_quota", "get_antigravity_account_quota",
   "bogus_tool", "GET_QUOTA", "get_quota ", "toString", ""}

\* the lines the peer may send in the registry specification
RegistryLines ==
  {ToolCall(JsNum(1), n, JsUndefined) : n \in NamesTried}
  \cup {Plain(JsNum(2), "tools/list")}

\* the registry specification: the modular server, one name at a time
NextRegistry ==
  \/ \E l \in RegistryLines : OnLine(l, MaxWideLines)
  \/ OnClose
  \/ Server

SpecRegistry == InitModular /\ [][NextRegistry]_vars

\* the dispatcher specification of the modular server
SpecModular == InitModular /\ [][NextDispatch]_vars

\* a pipeline of the getAll call of line i has moved: ps are the pipelines
\* of that call afterwards. The awaiting tool resumes when Promise.all has
\* settled; a call that was answered already ignores its pipelines
PipelineMoved(i, ps) ==
  /\ task' =
       IF task[i].pc # "awaitTool" THEN task
       ELSE IF promiseAll(ps) = "rejected"
       THEN [task EXCEPT ![i] = ToolFailed(inputLog[i], "TypeError")]
       ELSE IF promiseAll(ps) = "resolved"
       THEN [task EXCEPT ![i] = ToolSucceeded(inputLog[i])]
       ELSE task
  /\ pipe' = [pipe EXCEPT ![i] = IF task[i].pc = "awaitTool" THEN ps ELSE Collect(ps)]
  /\ toolResult' =
       IF task[i].pc = "awaitTool" /\ promiseAll(ps) = "resolved"
       THEN [toolResult EXCEPT ![i] = quotaToolResult(inputLog[i], ps)]
       ELSE toolResult
  /\ UNCHANGED <<environment, inputLog, pendingRequests, stdinClosed, exited, calls,
                 started, failed, validHours, out, outAtClose, unhandled>>

\* the token request of account a (counted from 1) of line i ends
RefreshCompletes(i, a, outcome) ==
  /\ ~exited
  /\ a \in 1..Len(pipe[i])
  /\ pipe[i][a].pc = "refresh"
  /\ PipelineMoved(i, [pipe[i] EXCEPT ![a] = afterRefresh(pipe[i][a], outcome)])

\* the fetchAvailableModels call of account a of line i ends
ModelsCallCompletes(i, a, settled) ==
  /\ ~exited
  /\ a \in 1..Len(pipe[i])
  /\ pipe[i][a].pc = "quota"
  /\ pipe[i][a].ag.st = "flight"
  /\ PipelineMoved(i, [pipe[i] EXCEPT
                         ![a] = afterQuotaCall(impl, pipe[i][a], "models", settled)])

\* the retrieveUserQuota call of account a of line i ends
BucketsCallCompletes(i, a, settled) ==
  /\ ~exited
  /\ a \in 1..Len(pipe[i])
  /\ pipe[i][a].pc = "quota"
  /\ pipe[i][a].gc.st = "flight"
  /\ PipelineMoved(i, [pipe[i] EXCEPT
                         ![a] = afterQuotaCall(impl, pipe[i][a], "buckets", settled)])

\* how a token request ends
RefreshOutcomes == {"ok", "HTTP 400"}

\* how a quota call fails
QuotaFailures == {"Request timed out"}

\* the bodies fetchAvailableModels may deliver with status 200
ModelPayloads ==
  {ModelsData("object", "object",
     <<ModelInfo("m1", "object", QuotaInfo("object", JsNum(500), JsStr("t")))>>),
   ModelsData("object", "object", <<ModelInfo("m1", "null", NoQuotaInfo)>>),
   ModelsData("object", "object",
     <<ModelInfo("m1", "object", QuotaInfo("null", JsUndefined, JsUndefined))>>),
   ModelsData("object", "absent", <<>>)}

\* the bodies retrieveUserQuota may deliver with status 200
BucketPayloads ==
  {BucketsData("object", "array",
     <<Bucket("object", JsStr("g1"), JsNum(250), JsUndefined)>>),
   BucketsData("object", "object", <<>>)}

\* everything the quota aggregator does by itself
QuotaServer ==
  \/ \E i \in Slots, a \in 1..MaxAccounts, o \in RefreshOutcomes :
       RefreshCompletes(i, a, o)
  \/ \E i \in Slots, a \in 1..MaxAccounts,
        s \in {CallFailed(m) : m \in QuotaFailures} \cup {CallOk(d) : d \in ModelPayloads} :
       ModelsCallCompletes(i, a, s)
  \/ \E i \in Slots, a \in 1..MaxAccounts,
        s \in {CallFailed(m) : m \in QuotaFailures} \cup {CallOk(d) : d \in BucketPayloads} :
       BucketsCallCompletes(i, a, s)

\* the kinds of account an accounts file may hold
Accounts == {Account(e, t) : e \in {JsBool(1), JsBool(0)}, t \in BOOLEAN}

\* the accounts file is there but is not what loadAccounts expects
InvalidStore == [kind |-> "invalid", accounts |-> <<>>]

\* the accounts files of at most MaxAccounts accounts
Stores ==
  {MissingStore, InvalidStore}
  \cup {[kind |-> "ok", accounts |-> s] :
          s \in UNION {[1..n -> Accounts] : n \in 0..MaxAccounts}}

\* the lines the peer may send in the quota specification
QuotaLines == {ToolCall(JsNum(1), "get_antigravity_quota", JsUndefined)}

\* a peer that sends its next request when the last one has been answered
\* and the server has no outbound call left
OnLineInTurn(l, limit) ==
  /\ \A j \in Slots : task[j].pc \in {"idle", "done"}
  /\ \A j \in Slots : \A a \in 1..Len(pipe[j]) : Settled(pipe[j][a])
  /\ calls = {}
  /\ OnLine(l, limit)

\* a machine with every credential and accounts file the quota tools may find
InitQuota ==
  /\ impl \in {"modular", "single"}
  /\ apiKey = TRUE
  /\ clientSecret \in BOOLEAN
  /\ store \in Stores
  /\ InitServer

\* the quota specification
NextQuota ==
  \/ \E l \in QuotaLines : OnLineInTurn(l, MaxQuotaLines)
  \/ OnClose
  \/ \E i \in Slots : Resume(i)
  \/ QuotaServer

SpecQuota == InitQuota /\ [][NextQuota]_vars

\* the bodies fetchAvailableModels delivers in the summary specification:
\* m1 at 40%; m1 at 70% with m2 at 0%; m1 without quotaInfo with m2 at 0.4%
SummaryModelPayloads ==
  {ModelsData("object", "object",
     <<ModelInfo("m1", "object", QuotaInfo("object", JsNum(400), JsUndefined))>>),
   ModelsData("object", "object",
     <<ModelInfo("m1", "object", QuotaInfo("object", JsNum(700), JsUndefined)),
       ModelInfo("m2", "object", QuotaInfo("object", JsNum(0), JsUndefined))>>),
   ModelsData("object", "object",
     <<ModelInfo("m1", "object", NoQuotaInfo),
       ModelInfo("m2", "object", QuotaInfo("object", JsNum(4), JsUndefined))>>)}

\* the bodies retrieveUserQuota delivers in the summary specification: two
\* buckets of m1 at 25% and 90%; one bucket of m1 without a fraction
SummaryBucketPayloads ==
  {BucketsData("object", "array",
     <<Bucket("object", JsStr("m1"), JsNum(250), JsUndefined),
       Bucket("object", JsStr("m1"), JsNum(900), JsUndefined)>>),
   BucketsData("object", "array",
     <<Bucket("object", JsStr("m1"), JsUndefined, JsUndefined)>>)}

\* the quota aggregator with every outbound call answered with status 200
SummaryServer ==
  \/ \E i \in Slots, a \in 1..MaxAccounts : RefreshCompletes(i, a, "ok")
  \/ \E i \in Slots, a \in 1..MaxAccounts, d \in SummaryModelPayloads :
       ModelsCallCompletes(i, a, CallOk(d))
  \/ \E i \in Slots, a \in 1..MaxAccounts, d \in SummaryBucketPayloads :
       BucketsCallCompletes(i, a, CallOk(d))

\* accounts files whose accounts all have a refresh token
TokenStores ==
  {[kind |-> "ok", accounts |-> s] :
     s \in UNION {[1..n -> {Account(JsBool(1), TRUE), Account(JsBool(0), TRUE)}] :
                    n \in 1..MaxAccounts}}

\* a machine set up for the quota tools
InitSummary ==
  /\ impl \in {"modular", "single"}
  /\ apiKey = TRUE
  /\ clientSecret = TRUE
  /\ store \in TokenStores
  /\ InitServer

\* the summary specification
NextSummary ==
  \/ \E l \in QuotaLines : OnLineInTurn(l, MaxQuotaLines)
  \/ OnClose
  \/ \E i \in Slots : Resume(i)
  \/ SummaryServer

SpecSummary == InitSummary /\ [][NextSummary]_vars

\* the quota aggregator with one outcome for each quota call
OneServer ==
  \/ \E i \in Slots, a \in 1..MaxAccounts, o \in RefreshOutcomes :
       RefreshCompletes(i, a, o)
  \/ \E i \in Slots, a \in 1..MaxAccounts :
       ModelsCallCompletes(i, a,
         CallOk(ModelsData("object", "object",
           <<ModelInfo("m1", "object", QuotaInfo("object", JsNum(500), JsStr("t")))>>)))
  \/ \E i \in Slots, a \in 1..MaxAccounts :
       BucketsCallCompletes(i, a, CallFailed("Request timed out"))

\* the accounts of the identifier specification: two whose emails differ in
\* case only, a disabled one, one without an email
NamedAccounts ==
  {AccountNamed("a@x", JsBool(1), TRUE), AccountNamed("A@X", JsBool(1), TRUE),
   AccountNamed("b@x", JsBool(0), TRUE), AccountNamed("", JsBool(1), TRUE)}

\* the accounts files of the identifier specification
NamedStores ==
  {MissingStore, InvalidStore}
  \cup {[kind |-> "ok", accounts |-> s] :
          s \in UNION {[1..n -> NamedAccounts] : n \in 0..MaxAccounts}}

\* the values the peer may send as the account argument (the numbers are
\* whole numbers)
Identifiers ==
  {JsNum(0), JsNum(1), JsNum(-1), JsNum(999), JsStr("0"), JsStr("1"), JsStr("999"),
   JsStr("a@x"), JsStr("B@X"), JsStr("nobody@x"), JsStr(""), JsStr("-1"), JsUndefined}

\* the lines the peer may send in the identifier specification
OneLines ==
  {AccountCall(JsNum(1), x) : x \in Identifiers}
  \cup {ToolCall(JsNum(1), "get_antigravity_quota", JsUndefined)}

\* a machine with the client secret and any accounts file
InitOne ==
  /\ impl \in {"modular", "single"}
  /\ apiKey = TRUE
  /\ clientSecret = TRUE
  /\ store \in NamedStores
  /\ InitServer

\* the identifier specification
NextOne ==
  \/ \E l \in OneLines : OnLineInTurn(l, MaxQuotaLines)
  \/ OnClose
  \/ \E i \in Slots : Resume(i)
  \/ OneServer

SpecOne == InitOne /\ [][NextOne]_vars

\* the accounts of the index specification: one with an email, one whose
\* email is the text an absent identifier is converted to, one without
IndexedAccounts ==
  {AccountNamed("a@x", JsBool(1), TRUE), AccountNamed("undefined", JsBool(1), TRUE),
   AccountNamed("", JsBool(1), TRUE)}

\* the accounts files of the index specification
IndexedStores ==
  {[kind |-> "ok", accounts |-> s] :
     s \in UNION {[1..n -> IndexedAccounts] : n \in 1..MaxAccounts}}

\* the values the peer may send as the account argument in the index
\* specification: whole numbers, the numbers -1/2, 1/2 and 3/2, strings of
\* digits, emails, null and no value
IndexIdentifiers ==
  {JsNum(0), JsNum(1), JsNum(-1), JsNum(999), JsHalf(-1), JsHalf(0), JsHalf(1),
   JsStr("1"), JsStr("999"), JsStr("A@X"), JsStr("nobody@x"), JsNull, JsUndefined}

\* the lines the peer may send in the index specification
IndexLines == {AccountCall(JsNum(1), x) : x \in IndexIdentifiers}

\* a machine with the client secret and an accounts file that is not empty
InitIndex ==
  /\ impl \in {"modular", "single"}
  /\ apiKey = TRUE
  /\ clientSecret = TRUE
  /\ store \in IndexedStores
  /\ InitServer

\* the index specification
NextIndex ==
  \/ \E l \in IndexLines : OnLineInTurn(l, MaxQuotaLines)
  \/ OnClose
  \/ \E i \in Slots : Resume(i)
  \/ OneServer

SpecIndex == InitIndex /\ [][NextIndex]_vars

\* the accounts files of a machine without accounts: no file, a file that
\* is not an accounts file, a file with an empty list
EmptyStores == {MissingStore, InvalidStore, [kind |-> "ok", accounts |-> <<>>]}

\* the lines the peer may send in the no-accounts specification
NoAccountsLines ==
  {ToolCall(JsNum(1), "get_antigravity_quota", JsUndefined),
   AccountCall(JsNum(1), JsNum(0)),
   AccountCall(JsNum(2), JsStr("a@x")),
   Plain(JsNum(2), "ping")}

\* a machine with the client secret and no accounts
InitNoAccounts ==
  /\ impl \in {"modular", "single"}
  /\ apiKey = TRUE
  /\ clientSecret = TRUE
  /\ store \in EmptyStores
  /\ InitServer

\* the no-accounts specification
NextNoAccounts ==
  \/ \E l \in NoAccountsLines : OnLine(l, MaxLines)
  \/ OnClose
  \/ \E i \in Slots : Resume(i)

SpecNoAccounts == InitNoAccounts /\ [][NextNoAccounts]_vars

\* accounts files whose accounts are all enabled and have a refresh token
ReadyStores ==
  {[kind |-> "ok", accounts |-> [a \in 1..n |-> Account(JsBool(1), TRUE)]] :
     n \in 1..MaxAccounts}

\* the lines the peer may send in the credentials specification
CredentialLines ==
  {ToolCall(JsNum(1), "get_quota", JsUndefined),
   ToolCall(JsNum(1), "get_usage", JsUndefined),
   ToolCall(JsNum(1), "get_antigravity_quota", JsUndefined),
   AccountCall(JsNum(1), JsNum(0))}

\* a machine on which either credential may be missing
InitCredentials ==
  /\ impl \in {"modular", "single"}
  /\ apiKey \in BOOLEAN
  /\ clientSecret \in BOOLEAN
  /\ store \in ReadyStores
  /\ InitServer

\* the credentials specification
NextCredentials ==
  \/ \E l \in CredentialLines : OnLineInTurn(l, MaxQuotaLines)
  \/ OnClose
  \/ Server
  \/ OneServer

SpecCredentials == InitCredentials /\ [][NextCredentials]_vars

\* the bodies fetchAvailableModels delivers in the parsing specification:
\* fractions of 0.5% and 0.4%; a fraction that is a string and one that is
\* null; a model without quotaInfo and one whose quotaInfo is a number;
\* 99.5% and a quotaInfo without a fraction
ParseModelPayloads ==
  {ModelsData("object", "object",
     <<ModelInfo("m1", "object", QuotaInfo("object", JsNum(5), JsUndefined)),
       ModelInfo("m2", "object", QuotaInfo("object", JsNum(4), JsUndefined))>>),
   ModelsData("object", "object",
     <<ModelInfo("m1", "object", QuotaInfo("object", JsStr("0.5"), JsUndefined)),
       ModelInfo("m2", "object", QuotaInfo("object", JsNull, JsUndefined))>>),
   ModelsData("object", "object",
     <<ModelInfo("m1", "object", NoQuotaInfo),
       ModelInfo("m2", "object", QuotaInfo("number", JsUndefined, JsUndefined))>>),
   ModelsData("object", "object",
     <<ModelInfo("m1", "object", QuotaInfo("object", JsNum(995), JsStr("t"))),
       ModelInfo("m2", "object", QuotaInfo("object", JsUndefined, JsStr("t")))>>)}

\* the bodies retrieveUserQuota delivers in the parsing specification: 25%,
\* an item that is null and a fraction that is a string; an item that is a
\* number, 100% and a bucket without a fraction; 0.5% and 0%
ParseBucketPayloads ==
  {BucketsData("object", "array",
     <<Bucket("object", JsStr("g1"), JsNum(250), JsUndefined),
       Bucket("null", JsUndefined, JsUndefined, JsUndefined),
       Bucket("object", JsStr("g2"), JsStr("0.5"), JsUndefined)>>),
   BucketsData("object", "array",
     <<Bucket("number", JsUndefined, JsUndefined, JsUndefined),
       Bucket("object", JsStr("g1"), JsNum(1000), JsUndefined),
       Bucket("object", JsStr("g2"), JsUndefined, JsUndefined)>>),
   BucketsData("object", "array",
     <<Bucket("object", JsStr("g1"), JsNum(5), JsUndefined),
       Bucket("object", JsStr("g2"), JsNum(0), JsNull)>>)}

\* the per-account pipeline with both quota calls answered with status 200
ParseServer ==
  \/ \E i \in Slots, a \in 1..MaxAccounts : RefreshCompletes(i, a, "ok")
  \/ \E i \in Slots, a \in 1..MaxAccounts, d \in ParseModelPayloads :
       ModelsCallCompletes(i, a, CallOk(d))
  \/ \E i \in Slots, a \in 1..MaxAccounts, d \in ParseBucketPayloads :
       BucketsCallCompletes(i, a, CallOk(d))

\* the lines the peer may send in the parsing specification
ParseLines == {AccountCall(JsNum(1), JsNum(0)), AccountCall(JsNum(2), JsStr("a@x"))}

\* the modular server with both credentials and an account to ask about
InitParse ==
  /\ impl = "modular"
  /\ apiKey = TRUE
  /\ clientSecret = TRUE
  /\ store \in ReadyStores
  /\ InitServer

\* the parsing specification
NextParse ==
  \/ \E l \in ParseLines : OnLineInTurn(l, MaxQuotaLines)
  \/ OnClose
  \/ \E i \in Slots : Resume(i)
  \/ ParseServer

SpecParse == InitParse /\ [][NextParse]_vars

\* the kinds of account of the account specification: enabled is optional
\* in the zod schema; one record has neither the member nor a refresh token
AccountRecords ==
  {Account(JsBool(1), TRUE), Account(JsBool(0), TRUE),
   Account(JsUndefined, TRUE), Account(JsUndefined, FALSE)}

\* the accounts files of the account specification
RecordStores ==
  {[kind |-> "ok", accounts |-> s] :
     s \in UNION {[1..n -> AccountRecords] : n \in 1..MaxAccounts}}

\* the lines the peer may send in the account specification
RecordLines ==
  {ToolCall(JsNum(1), "get_antigravity_quota", JsUndefined),
   AccountCall(JsNum(1), JsNum(0))}

\* the quota aggregator with each quota call either rejected or answered
\* with one entry
RecordsServer ==
  \/ \E i \in Slots, a \in 1..MaxAccounts, o \in RefreshOutcomes :
       RefreshCompletes(i, a, o)
  \/ \E i \in Slots, a \in 1..MaxAccounts,
        s \in {CallFailed("Request timed out"),
               CallOk(ModelsData("object", "object",
                 <<ModelInfo("m1", "object", QuotaInfo("object", JsNum(500), JsStr("t")))>>))} :
       ModelsCallCompletes(i, a, s)
  \/ \E i \in Slots, a \in 1..MaxAccounts,
        s \in {CallFailed("Request timed out"),
               CallOk(BucketsData("object", "array",
                 <<Bucket("object", JsStr("g1"), JsNum(250), JsUndefined)>>))} :
       BucketsCallCompletes(i, a, s)

\* a machine whose accounts file holds every kind of record
InitRecords ==
  /\ impl = "modular"
  /\ apiKey = TRUE
  /\ clientSecret \in BOOLEAN
  /\ store \in RecordStores
  /\ InitServer

\* the account specification
NextRecords ==
  \/ \E l \in RecordLines : OnLineInTurn(l, MaxQuotaLines)
  \/ OnClose
  \/ \E i \in Slots : Resume(i)
  \/ RecordsServer

SpecRecords == InitRecords /\ [][NextRecords]_vars

\* the hours specification: the modular server, every hours argument
NextHours ==
  \/ \E l \in HoursLines : OnLine(l, MaxHoursLines)
  \/ OnClose
  \/ Server

SpecHours == InitModular /\ [][NextHours]_vars

\* the hours arguments of the default specification: absent, null, at most
\* 0, not numeric, not finite, and 5
DefaultedValues ==
  {JsUndefined, JsNull, JsNum(0), JsNum(-1), JsStr("abc"), JsInfinity, JsNum(5)}

\* the lines the peer may send in the default specification
DefaultedLines ==
  {ToolCall(JsNum(1), nm, h) :
     nm \in {"get_model_usage", "get_tool_usage"}, h \in DefaultedValues}
  \cup {ToolCall(JsNum(1), "get_usage", h) : h \in {JsUndefined, JsStr("abc")}}

\* the default specification: both servers, hours arguments of each kind
NextDefaulted ==
  \/ \E l \in DefaultedLines : OnLine(l, MaxHoursLines)
  \/ OnClose
  \/ Server

SpecDefaulted == Init /\ [][NextDefaulted]_vars

\* the liveness specification: the runtime runs every resumed callback, and
\* every outbound call ends (it completes, fails or times out)
NextLive ==
  \/ \E l \in LiveLines : OnLine(l, MaxLiveLines)
  \/ OnClose
  \/ Server

Fairness ==
  /\ \A i \in Slots : WF_vars(Resume(i))
  /\ \A i \in Slots, c \in CallNames :
        WF_vars(\E o \in CallOutcomes : CallCompletes(i, c, o))

LiveSpec == Init /\ [][NextLive]_vars /\ Fairness

\* ------------------------------------------------------------------------
\* Vocabulary of the properties
\* ------------------------------------------------------------------------

\* the input lines read so far
Received == 1..Len(inputLog)

\* the positions of the output lines caused by input line i
Answers(i) == {k \in 1..Len(out) : out[k].line = i}

Answered(i) == Answers(i) # {}

\* the line parsed to a JSON-RPC message with an id member
HasId(l) == l.kind = "object" /\ l.id # JsUndefined

\* the line is a tools/call request carrying an id
IsToolCallWithId(l) == HasId(l) /\ l.method = "tools/call"

\* the line callback of line i has run its finally block
Left(i) == task[i].pc = "done"

\* the line was handed to the dispatcher
Dispatched(i) == i \in Received /\ inputLog[i].kind \in {"null", "object"}

\* the number of dispatches that have not left yet
InFlight == Cardinality({i \in Received : task[i].pc \in {"settled", "awaitTool"}})

\* ------------------------------------------------------------------------
\* C1
\* ------------------------------------------------------------------------

\* C1: the process has exited only if the input stream has closed and the
\* in-flight counter is zero (and then no dispatch is in flight either).
C1_ExitOnlyClosedAndIdle ==
  exited => (stdinClosed /\ pendingRequests = 0 /\ InFlight = 0)

\* the process exited at the leave of a dispatch that outlived the close
C1_Witness ==
  /\ exited
  /\ outAtClose >= 0
  /\ Len(out) > outAtClose

\* ------------------------------------------------------------------------
\* C2
\* ------------------------------------------------------------------------

\* C2: a tools/call request carrying an id has its response on the output
\* stream once its line callback has left (decrement and exit check), and
\* hence whenever the process has exited.
C2_ResponseBeforeExit ==
  \A i \in Received :
    (IsToolCallWithId(inputLog[i]) /\ (Left(i) \/ exited)) => Answered(i)

\* the input closed while a tools/call with an id was pending; its response
\* was written after the close and the process then exited
C2_Witness ==
  /\ exited
  /\ outAtClose >= 0
  /\ \E k \in 1..Len(out) :
       /\ k > outAtClose
       /\ IsToolCallWithId(inputLog[out[k].line])
       /\ inputLog[out[k].line].name \in TOOLS

\* ------------------------------------------------------------------------
\* C3
\* ------------------------------------------------------------------------

\* C3: every dispatched request carrying an id eventually has its response
\* written, whether or not the input stream closes while it is in flight.
C3_EventuallyAnswered ==
  \A i \in Slots :
    (i \in Received /\ HasId(inputLog[i])) ~> Answered(i)

\* the input has closed, one request with an id has been answered after the
\* close and another dispatch is still in flight
C3_Witness ==
  /\ stdinClosed
  /\ ~exited
  /\ InFlight > 0
  /\ \E k \in 1..Len(out) : k > outAtClose /\ HasId(inputLog[out[k].line])

\* ------------------------------------------------------------------------
\* C4
\* ------------------------------------------------------------------------

\* C4: once the input stream has closed the process eventually exits (the
\* only exit is process.exit(0)): at the close signal itself when nothing is
\* in flight, and otherwise at the leave that brings the counter to zero.
C4_ExitsAfterClose ==
  /\ stdinClosed ~> exited
  /\ [][(~stdinClosed /\ stdinClosed') => (exited' <=> pendingRequests = 0)]_vars
  /\ [][(stdinClosed /\ ~exited) =>
          (exited' <=> (pendingRequests > 0 /\ pendingRequests' = 0))]_vars

\* the process exited at the leave of the last of two dispatches that were
\* in flight when the input closed
C4_Witness ==
  /\ exited
  /\ outAtClose >= 0
  /\ Len(out) >= outAtClose + 2

\* ------------------------------------------------------------------------
\* C5
\* ------------------------------------------------------------------------

\* C5: a request carrying an id never has two envelopes and has exactly one
\* once its line callback has left; every envelope other than a parse error
\* answers a received request carrying an id and echoes that id (null too).
C5_ExactlyOneEnvelope ==
  /\ \A i \in Received :
       HasId(inputLog[i]) =>
         /\ Cardinality(Answers(i)) <= 1
         /\ (Left(i) \/ exited) => Cardinality(Answers(i)) = 1
  /\ \A k \in 1..Len(out) :
       /\ out[k].line \in Received
       /\ \/ /\ inputLog[out[k].line].kind = "garbage"
             /\ out[k].env.code = -32700
          \/ /\ HasId(inputLog[out[k].line])
             /\ out[k].env.code # -32700
             /\ out[k].env.id = inputLog[out[k].line].id

\* two requests with different ids were in flight together and were
\* answered in the reverse of their arrival order, each with its own id
C5_Witness ==
  /\ Len(out) = 2
  /\ out[1].line = 2
  /\ out[2].line = 1
  /\ HasId(inputLog[1])
  /\ HasId(inputLog[2])
  /\ inputLog[1].id # inputLog[2].id
  /\ out[1].env.id = inputLog[2].id
  /\ out[2].env.id = inputLog[1].id

\* ------------------------------------------------------------------------
\* C6
\* ------------------------------------------------------------------------

\* C6: a message without an id member never causes an output line, whatever
\* its method, its tool and its arguments.
C6_NotificationsSilent ==
  \A i \in Received :
    (inputLog[i].kind = "object" /\ inputLog[i].id = JsUndefined) => ~Answered(i)

\* a tools/call notification naming a registered tool was dispatched, its
\* line callback has left and nothing was written
C6_Witness ==
  \E i \in Received :
    /\ inputLog[i].kind = "object"
    /\ inputLog[i].id = JsUndefined
    /\ inputLog[i].method = "tools/call"
    /\ inputLog[i].name = "get_usage"
    /\ Left(i)
    /\ out = <<>>

\* ------------------------------------------------------------------------
\* C7
\* ------------------------------------------------------------------------

\* C7 as stated: a message whose id is null is never answered.
C7_NullIdSilent ==
  \A i \in Received :
    (inputLog[i].kind = "object" /\ inputLog[i].id = JsNull) => ~Answered(i)

\* C7 amended: a message whose id is null is not a notification: once its
\* line callback has left, exactly one envelope has been written for it, and
\* that envelope carries the id null.
C7_NullIdAnswered ==
  \A i \in Received :
    (inputLog[i].kind = "object" /\ inputLog[i].id = JsNull /\ Left(i)) =>
      /\ Cardinality(Answers(i)) = 1
      /\ \A k \in Answers(i) : out[k].env.id = JsNull /\ out[k].env.code # -32700

\* a ping whose id is null has been answered with an empty result
C7_Witness ==
  \E i \in Received :
    /\ inputLog[i].kind = "object"
    /\ inputLog[i].id = JsNull
    /\ inputLog[i].method = "ping"
    /\ Left(i)
    /\ \E k \in Answers(i) : out[k].env.type = "result" /\ out[k].env.id = JsNull

\* ------------------------------------------------------------------------
\* C8
\* ------------------------------------------------------------------------

\* the step reads a line that is not JSON
ReadsGarbage ==
  /\ Len(inputLog') = Len(inputLog) + 1
  /\ inputLog'[Len(inputLog')].kind = "garbage"

\* C8: a line that is not JSON has exactly one envelope, an error with id
\* null and code -32700; reading it leaves the in-flight counter, the closed
\* flag, the running dispatches and the process alone; requests that come
\* after it are answered once each.
C8_ParseError ==
  /\ [](\A i \in Received :
          inputLog[i].kind = "garbage" =>
            /\ Cardinality(Answers(i)) = 1
            /\ \A k \in Answers(i) :
                 /\ out[k].env.type = "error"
                 /\ out[k].env.id = JsNull
                 /\ out[k].env.code = -32700
            /\ \A j \in Received :
                 (j > i /\ HasId(inputLog[j]) /\ Left(j)) =>
                   Cardinality(Answers(j)) = 1)
  /\ [][ReadsGarbage =>
          /\ pendingRequests' = pendingRequests
          /\ stdinClosed' = stdinClosed
          /\ exited' = exited
          /\ ~exited'
          /\ task' = task
          /\ Len(out') = Len(out) + 1]_vars

\* a line that is not JSON was answered with the parse error, and the
\* request that came after it was answered with a result
C8_Witness ==
  /\ Len(inputLog) = 2
  /\ inputLog[1].kind = "garbage"
  /\ Len(out) = 2
  /\ out[1].line = 1
  /\ out[1].env.code = -32700
  /\ out[2].line = 2
  /\ out[2].env.type = "result"

\* ------------------------------------------------------------------------
\* C9
\* ------------------------------------------------------------------------

\* the names the registry's switch knows
RegisteredNames ==
  {"get_usage", "get_quota", "get_model_usage", "get_tool_usage",
   "get_antigravity_quota", "get_antigravity_account_quota"}

\* C9 (modular server): a tools/call request with an id that names no
\* registered tool starts no outbound call and never waits for a handler;
\* its one envelope is an error of code -32000 that names the tool.
C9_UnknownTool ==
  \A i \in Received :
    (/\ IsToolCallWithId(inputLog[i])
     /\ inputLog[i].hasParams
     /\ inputLog[i].name \notin RegisteredNames) =>
      /\ \A c \in CallNames : <<i, c>> \notin started
      /\ task[i].pc # "awaitTool"
      /\ Left(i) => Cardinality(Answers(i)) = 1
      /\ \A k \in Answers(i) :
           /\ out[k].env.type = "error"
           /\ out[k].env.code = -32000
           /\ out[k].env.what = "Unknown tool"
           /\ out[k].env.arg = inputLog[i].name
           /\ out[k].env.id = inputLog[i].id

\* a tools/call for bogus_tool with id 1 has been answered
C9_Witness ==
  \E i \in Received :
    /\ inputLog[i] = ToolCall(JsNum(1), "bogus_tool", JsUndefined)
    /\ Left(i)
    /\ Answered(i)

\* ------------------------------------------------------------------------
\* C10
\* ------------------------------------------------------------------------

\* the messages of the errors that made the tool call of line i fail: a
\* failed or timed-out outbound call (an asynchronous rejection), or, in the
\* modular server, an invalid hours argument, an unknown tool or missing
\* params (thrown before the first suspension)
FailureMessages(i) ==
  {f[3] : f \in {g \in failed : g[1] = i}}
  \cup (IF impl = "modular" /\ inputLog[i].hasParams
           /\ inputLog[i].name \in {"get_usage", "get_model_usage", "get_tool_usage"}
           /\ inputLog[i].hours = JsNum(-1)
        THEN {"Invalid hours value"} ELSE {})
  \cup (IF impl = "modular" /\ ~apiKey /\ inputLog[i].hasParams
           /\ inputLog[i].name \in
                {"get_usage", "get_quota", "get_model_usage", "get_tool_usage"}
        THEN {"OC_ZAI_API_KEY environment variable is not set"} ELSE {})
  \cup (IF impl = "modular" /\ inputLog[i].hasParams
           /\ inputLog[i].name \notin RegisteredNames
        THEN {"Unknown tool"} ELSE {})
  \cup (IF impl = "modular" /\ ~inputLog[i].hasParams THEN {"TypeError"} ELSE {})

\* C10: when the handler of a tools/call request with an id fails, the
\* request has exactly one envelope once its callback has left, an error of
\* code -32000 with the message of a failure of that call; the process has
\* not exited unless the input has closed; requests that come after it are
\* answered once each.
C10_HandlerFailure ==
  \A i \in Received :
    (IsToolCallWithId(inputLog[i]) /\ FailureMessages(i) # {}) =>
      /\ Left(i) => Cardinality(Answers(i)) = 1
      /\ \A k \in Answers(i) :
           /\ out[k].env.type = "error"
           /\ out[k].env.code = -32000
           /\ out[k].env.what \in FailureMessages(i)
           /\ out[k].env.id = inputLog[i].id
      /\ exited => stdinClosed
      /\ \A j \in Received :
           (j > i /\ HasId(inputLog[j]) /\ Left(j)) => Cardinality(Answers(j)) = 1

\* the outbound call of the first request timed out and was answered with
\* error -32000; the second line was read after that and got a result
C10_Witness ==
  /\ Len(inputLog) = 2
  /\ Len(out) = 2
  /\ <<1, "quota", "Request timed out">> \in failed
  /\ out[1].line = 1
  /\ out[1].env.code = -32000
  /\ out[1].env.what = "Request timed out"
  /\ out[1].nIn = 1
  /\ out[2].line = 2
  /\ out[2].env.type = "result"
  /\ ~exited

\* ------------------------------------------------------------------------
\* C11
\* ------------------------------------------------------------------------

\* the methods handleMessage has an arm for
KnownMethods == {"initialize", "ping", "tools/list", "tools/call"}

\* C11: a request carrying an id whose method is none of initialize, ping,
\* tools/list, tools/call has exactly one envelope once its callback has
\* left: an error of code -32601 whose message names the method and which
\* echoes the id.
C11_MethodNotFound ==
  \A i \in Received :
    (HasId(inputLog[i]) /\ inputLog[i].method \notin KnownMethods) =>
      /\ Left(i) => Cardinality(Answers(i)) = 1
      /\ \A k \in Answers(i) :
           /\ out[k].env.type = "error"
           /\ out[k].env.code = -32601
           /\ out[k].env.what = "Method not found"
           /\ out[k].env.arg = inputLog[i].method
           /\ out[k].env.id = inputLog[i].id

\* a request with id 2 for the method bogus/method has been answered
C11_Witness ==
  \E i \in Received :
    /\ inputLog[i] = Plain(JsNum(2), "bogus/method")
    /\ Left(i)
    /\ \E k \in Answers(i) : out[k].env.code = -32601

\* ------------------------------------------------------------------------
\* C12
\* ------------------------------------------------------------------------

\* the line is a tools/call with an id for a tool that takes hours
IsHoursCall(l) ==
  IsToolCallWithId(l) /\ l.hasParams
  /\ l.name \in {"get_usage", "get_model_usage", "get_tool_usage"}

\* what JavaScript's Number() makes of the value when that is a finite
\* number greater than zero, 0 otherwise (written out value by value)
CoercedPositive(h) ==
  CASE h = JsNum(5) -> 5
    [] h = JsStr("5") -> 5
    [] h = JsBool(1) -> 1
    [] OTHER -> 0

\* how the value reads in a message
ValueName(h) ==
  CASE h = JsNull -> "null"
    [] h = JsNum(-1) -> "-1"
    [] h = JsNum(0) -> "0"
    [] h = JsStr("") -> ""
    [] h = JsStr("abc") -> "abc"
    [] h = JsStr("-1") -> "-1"
    [] h = JsBool(0) -> "false"
    [] h = JsInfinity -> "Infinity"
    [] h = JsObject -> "[object Object]"
    [] OTHER -> "?"

\* the hours argument is present and does not coerce to a finite number
\* greater than zero
BadHours(h) == h # JsUndefined /\ CoercedPositive(h) = 0

\* C12 (modular server): a call of get_model_usage, get_tool_usage or
\* get_usage whose hours argument does not coerce to a finite number greater
\* than zero is answered with the validation error, which names the value;
\* an absent argument is never rejected and the usage calls are given 24; a
\* value that coerces to a finite positive number is never rejected and the
\* usage calls are given that number.
C12_HoursValidation ==
  \A i \in Received :
    IsHoursCall(inputLog[i]) =>
      LET h == inputLog[i].hours IN
      IF BadHours(h)
      THEN /\ task[i].pc # "awaitTool"
           /\ Left(i) => Cardinality(Answers(i)) = 1
           /\ \A k \in Answers(i) :
                /\ out[k].env.type = "error"
                /\ out[k].env.code = -32000
                /\ out[k].env.what = "Invalid hours value"
                /\ out[k].env.arg = ValueName(h)
      ELSE /\ \A k \in Answers(i) : out[k].env.what # "Invalid hours value"
           /\ apiKey =>
                /\ validHours[i] = (IF h = JsUndefined THEN 24 ELSE CoercedPositive(h))
                /\ \A c \in UsageCalls(inputLog[i].name) : <<i, c>> \in started

\* get_tool_usage with hours "5" was answered with a result after its call
\* was given 5 hours
C12_Witness ==
  \E i \in Received :
    /\ inputLog[i] = ToolCall(JsNum(1), "get_tool_usage", JsStr("5"))
    /\ validHours[i] = 5
    /\ Left(i)
    /\ \E k \in Answers(i) : out[k].env.type = "result"

\* ------------------------------------------------------------------------
\* C13
\* ------------------------------------------------------------------------

\* C13 (modular server): when the hours argument of get_usage,
\* get_model_usage or get_tool_usage fails validation, no outbound call of
\* that tool call has been started or is in flight, the quota call of
\* get_usage included.
C13_ValidatedBeforeCalls ==
  \A i \in Received :
    (IsHoursCall(inputLog[i]) /\ BadHours(inputLog[i].hours)) =>
      \A c \in CallNames : <<i, c>> \notin started /\ <<i, c>> \notin calls

\* get_usage with hours 0 has been answered with an error and nothing was
\* ever sent to the usage-metering service
C13_Witness ==
  \E i \in Received :
    /\ inputLog[i] = ToolCall(JsNum(1), "get_usage", JsNum(0))
    /\ Left(i)
    /\ \E k \in Answers(i) : out[k].env.type = "error"
    /\ started = {}

\* ------------------------------------------------------------------------
\* C14
\* ------------------------------------------------------------------------

\* the line is a tools/call with an id for get_usage
IsGetUsage(l) == IsToolCallWithId(l) /\ l.hasParams /\ l.name = "get_usage"

\* the three outbound calls of get_usage
UsageFacets == {"quota", "model_usage", "tool_usage"}

\* C14: get_usage is all-or-nothing: once one of its three outbound calls
\* has failed, its envelope is an error; its envelope is a result only when
\* all three calls were started and have succeeded, and the result then is
\* the object with the three facets.
C14_AllOrNothing ==
  \A i \in Received :
    IsGetUsage(inputLog[i]) =>
      \A k \in Answers(i) :
        /\ (\E f \in failed : f[1] = i) => out[k].env.type = "error"
        /\ out[k].env.type = "result" =>
             /\ \A c \in UsageFacets :
                  /\ <<i, c>> \in started
                  /\ <<i, c>> \notin calls
                  /\ \A f \in failed : ~(f[1] = i /\ f[2] = c)
             /\ out[k].env.what = "content"

\* ------------------------------------------------------------------------
\* C15
\* ------------------------------------------------------------------------

\* an outbound call or a pipeline of the tool call of line i has not ended
Outstanding(i) ==
  \/ \E c \in CallNames : <<i, c>> \in calls
  \/ \E a \in 1..Len(pipe[i]) : ~Settled(pipe[i][a])

\* C15: within one tools/call the fanned-out operations (the three usage
\* calls of get_usage, the two quota calls of an account, the pipelines of
\* get_antigravity_quota) are started together, and every one of them has
\* ended before the response envelope of that call is written, also when
\* one of them fails.
C15_JoinedBeforeResponse ==
  \A i \in Received :
    IsToolCallWithId(inputLog[i]) =>
      /\ task[i].pc = "awaitTool" =>
           /\ \A c \in UsageCalls(inputLog[i].name) : <<i, c>> \in started
           /\ \A a \in 1..Len(pipe[i]) :
                pipe[i][a].pc = "quota" => {"models", "buckets"} \subseteq pipe[i][a].net
      /\ Answered(i) => ~Outstanding(i)

\* ------------------------------------------------------------------------
\* C16
\* ------------------------------------------------------------------------

\* the line is a tools/call with an id for get_antigravity_quota
IsGetAll(l) == IsToolCallWithId(l) /\ l.hasParams /\ l.name = "get_antigravity_quota"

\* the accounts file was loaded and holds at least one account
AccountsLoaded == loadAccountsError(impl) = ""

\* C16: with a non-empty account list, get_antigravity_quota is never
\* aborted and drops no account: whatever happens to each account, the call
\* succeeds with one result per loaded account, in positional order, with
\* account_index equal to the position; an account whose model-quota call
\* failed has errors and no antigravity_models.
C16_NoAccountDropped ==
  \A i \in Received :
    (IsGetAll(inputLog[i]) /\ AccountsLoaded) =>
      /\ \A k \in Answers(i) : out[k].env.type = "result"
      /\ task[i].pc = "settled" =>
           /\ task[i] = ToolSucceeded(inputLog[i])
           /\ Len(pipe[i]) = Len(store.accounts)
           /\ \A a \in 1..Len(pipe[i]) :
                /\ pipe[i][a].pc = "resolved"
                /\ pipe[i][a].result.account_index = a - 1
                /\ pipe[i][a].ag.st = "failed" =>
                     /\ pipe[i][a].result.errors # <<>>
                     /\ pipe[i][a].result.antigravity_models = <<>>

\* ------------------------------------------------------------------------
\* C17
\* ------------------------------------------------------------------------

\* the result with one error, the text given, and both lists empty
OnlyError(p, index, enabled, text) ==
  p.result = AccountQuotaResult(index, enabled, <<ErrorText(text, "")>>, <<>>, <<>>)

\* C17: the pipeline of a disabled account yields the one error "Account is
\* disabled", with or without a refresh token; the pipeline of an enabled
\* account without a refresh token yields the one error "No refresh token
\* stored for this account"; both lists are empty, the pipeline has
\* returned before the tool first waits, and it never starts a token
\* refresh or a quota call.
C17_ShortCircuits ==
  \A i \in Received :
    (IsGetAll(inputLog[i]) /\ AccountsLoaded) =>
      \A a \in 1..Len(store.accounts) :
        LET acc == store.accounts[a]
            p == pipe[i][a]
        IN /\ Len(pipe[i]) = Len(store.accounts)
           /\ ~IsEnabled(acc) =>
                /\ p.net = {}
                /\ p.pc \in {"resolved", "spent"}
                /\ p.pc = "resolved" => OnlyError(p, a - 1, FALSE, "Account is disabled")
           /\ (IsEnabled(acc) /\ ~acc.refreshToken) =>
                /\ p.net = {}
                /\ p.pc \in {"resolved", "spent"}
                /\ p.pc = "resolved" =>
                     OnlyError(p, a - 1, TRUE, "No refresh token stored for this account")

\* get_antigravity_quota has succeeded over a disabled account without a
\* refresh token and an enabled account without one, and sent nothing
C17_Witness ==
  \E i \in Received :
    /\ IsGetAll(inputLog[i])
    /\ store.accounts = <<Account(JsBool(0), FALSE), Account(JsBool(1), FALSE)>>
    /\ task[i] = ToolSucceeded(inputLog[i])
    /\ OnlyError(pipe[i][1], 0, FALSE, "Account is disabled")
    /\ OnlyError(pipe[i][2], 1, TRUE, "No refresh token stored for this account")
    /\ \A a \in 1..2 : pipe[i][a].net = {}

\* ------------------------------------------------------------------------
\* C18
\* ------------------------------------------------------------------------

\* the messages a failed token refresh may carry
RefreshFailures == (RefreshOutcomes \ {"ok"}) \cup {NoClientSecret}

\* C18: a pipeline has started a quota call only after its token refresh
\* was started and returned a token; a pipeline of an enabled account with
\* a refresh token that has resolved without a token carries the one error
\* "Token refresh failed: <message>", both lists empty, and has started
\* neither quota call.
C18_QuotaAfterRefresh ==
  \A i \in Received :
    (IsGetAll(inputLog[i]) /\ AccountsLoaded) =>
      \A a \in 1..Len(pipe[i]) :
        LET acc == store.accounts[a]
            p == pipe[i][a]
        IN p.pc # "spent" =>
             /\ (p.net \cap {"models", "buckets"} # {} \/ p.ag.st # "none" \/ p.gc.st # "none") =>
                  /\ p.token
                  /\ "refresh" \in p.net
                  /\ p.pc # "refresh"
             /\ (IsEnabled(acc) /\ acc.refreshToken /\ ~p.token) =>
                  /\ p.pc \in {"refresh", "resolved"}
                  /\ p.net \subseteq {"refresh"}
                  /\ p.pc = "resolved" =>
                       \E m \in RefreshFailures :
                         p.result = AccountQuotaResult(a - 1, TRUE,
                                      <<ErrorText("Token refresh failed", m)>>, <<>>, <<>>)

\* get_antigravity_quota has succeeded over two accounts: the token refresh
\* of the first failed and it sent nothing else; the second got its token
\* and both of its quota calls went out
C18_Witness ==
  \E i \in Received :
    /\ IsGetAll(inputLog[i])
    /\ task[i] = ToolSucceeded(inputLog[i])
    /\ Len(pipe[i]) = 2
    /\ pipe[i][1].net = {"refresh"}
    /\ pipe[i][1].result.errors = <<ErrorText("Token refresh failed", "HTTP 400")>>
    /\ pipe[i][2].token
    /\ pipe[i][2].net = {"refresh", "models", "buckets"}
    /\ pipe[i][2].pc = "resolved"

\* ------------------------------------------------------------------------
\* C19
\* ------------------------------------------------------------------------

\* the error a quota call that has ended leaves in errors
OwnError(call, prefix) ==
  IF call.st = "failed" THEN <<ErrorText(prefix, call.message)>> ELSE <<>>

\* C19: once the token refresh has succeeded and both quota calls have
\* ended, the pipeline has resolved (it never fails); each call that failed
\* has added its own error string and left its own list empty, and the list
\* of a call that succeeded holds what that call's payload gives, whatever
\* became of the other call.
C19_BestEffortQuotaCalls ==
  \A i \in Received :
    (IsGetAll(inputLog[i]) /\ AccountsLoaded) =>
      \A a \in 1..Len(pipe[i]) :
        LET p == pipe[i][a]
        IN (p.token /\ p.ag.st \in {"ok", "failed"} /\ p.gc.st \in {"ok", "failed"}) =>
             /\ p.pc = "resolved"
             /\ p.result.errors =
                  OwnError(p.ag, "Antigravity models") \o OwnError(p.gc, "Gemini CLI quota")
             /\ p.ag.st = "failed" => p.result.antigravity_models = <<>>
             /\ p.gc.st = "failed" => p.result.gemini_cli_quota = <<>>
             /\ p.ag.st = "ok" =>
                  p.result.antigravity_models = parseAntigravityModels(impl, p.ag.data).list
             /\ p.gc.st = "ok" =>
                  p.result.gemini_cli_quota = parseGeminiCliQuota(impl, p.gc.data).list

\* ------------------------------------------------------------------------
\* C20
\* ------------------------------------------------------------------------

\* C20: whatever body a quota call delivers with status 200, the parser of
\* that body returns a list and does not throw, the pipeline does not
\* reject, and get_antigravity_quota over a loaded account list is not
\* answered with an error.
C20_MalformedDataTolerated ==
  \A i \in Received :
    (IsGetAll(inputLog[i]) /\ AccountsLoaded) =>
      /\ \A a \in 1..Len(pipe[i]) :
           LET p == pipe[i][a]
           IN /\ p.ag.st = "ok" => ~parseAntigravityModels(impl, p.ag.data).threw
              /\ p.gc.st = "ok" => ~parseGeminiCliQuota(impl, p.gc.data).threw
              /\ p.pc # "rejected"
      /\ \A k \in Answers(i) : out[k].env.type = "result"

\* ------------------------------------------------------------------------
\* C21
\* ------------------------------------------------------------------------

\* the entries of the enabled accounts of a getAll result: account position,
\* list ("" for antigravity_models, "gemini-cli:" for gemini_cli_quota) and
\* position in the list
EntriesAt(r) ==
  {x \in (1..Len(r.accounts)) \X {"", "gemini-cli:"} \X (1..4) :
     /\ r.accounts[x[1]].enabled
     /\ x[3] <= Len(IF x[2] = "" THEN r.accounts[x[1]].antigravity_models
                    ELSE r.accounts[x[1]].gemini_cli_quota)}

\* the entry at such a place
EntryAt(r, x) ==
  IF x[2] = "" THEN r.accounts[x[1]].antigravity_models[x[3]]
  ELSE r.accounts[x[1]].gemini_cli_quota[x[3]]

\* the entries of a key whose remaining_pct is a number above 0
Available(r, key) ==
  {x \in EntriesAt(r) :
     /\ SummaryKey(x[2], EntryAt(r, x).model) = key
     /\ EntryAt(r, x).remaining_pct.t = "number"
     /\ EntryAt(r, x).remaining_pct.n > 0}

\* the largest remaining_pct of a non-empty set of entries
BestOf(r, xs) ==
  CHOOSE n \in {EntryAt(r, x).remaining_pct.n : x \in xs} :
    \A x \in xs : EntryAt(r, x).remaining_pct.n <= n

\* C21: in the summary get_antigravity_quota returns, the keys are the
\* keys of the entries of the enabled accounts' results (a model name, or
\* "gemini-cli:" and the model for a bucket), each once; accounts_available
\* of a key is the number of its entries with remaining_pct above 0, and
\* best_remaining_pct is the largest remaining_pct among those entries, -1
\* when there is none; the results of disabled accounts hold no entries.
C21_SummaryCounts ==
  \A i \in Received :
    toolResult[i].kind = "all" =>
      LET r == toolResult[i]
          s == r.summary
      IN /\ {s[j].key : j \in 1..Len(s)} =
              {SummaryKey(x[2], EntryAt(r, x).model) : x \in EntriesAt(r)}
         /\ \A j, k \in 1..Len(s) : s[j].key = s[k].key => j = k
         /\ \A j \in 1..Len(s) :
              /\ s[j].accounts_available = Cardinality(Available(r, s[j].key))
              /\ s[j].best_remaining_pct =
                   (IF Available(r, s[j].key) = {} THEN -1
                    ELSE BestOf(r, Available(r, s[j].key)))
         /\ Len(r.accounts) = Len(store.accounts)
         /\ \A a \in 1..Len(r.accounts) :
              /\ r.accounts[a].enabled = IsEnabled(store.accounts[a])
              /\ ~r.accounts[a].enabled =>
                   /\ r.accounts[a].antigravity_models = <<>>
                   /\ r.accounts[a].gemini_cli_quota = <<>>

\* get_antigravity_quota has returned over two accounts that report m1 at
\* 40% and at 70%: m1 has best 70 over 2 accounts, m2 at 0% is there with
\* best -1, and the two buckets of one account count twice
C21_Witness ==
  \E i \in Received :
    /\ toolResult[i].kind = "all"
    /\ Len(toolResult[i].accounts) = 2
    /\ \E j \in 1..Len(toolResult[i].summary) :
         toolResult[i].summary[j] = SummaryEntry(<<"", "m1">>, 70, 2)
    /\ \E j \in 1..Len(toolResult[i].summary) :
         toolResult[i].summary[j] = SummaryEntry(<<"", "m2">>, -1, 0)
    /\ \E j \in 1..Len(toolResult[i].summary) :
         toolResult[i].summary[j] = SummaryEntry(<<"gemini-cli:", "m1">>, 90, 2)

\* ------------------------------------------------------------------------
\* C22
\* ------------------------------------------------------------------------

\* the line is a tools/call with an id for get_antigravity_account_quota
IsGetOne(l) ==
  IsToolCallWithId(l) /\ l.hasParams /\ l.name = "get_antigravity_account_quota"

\* the strings of digits the peer sends, with the numbers they denote
DigitStrings == {<<"0", 0>>, <<"1", 1>>, <<"999", 999>>}

\* the positions, counted from 0, of the accounts whose email is the
\* identifier's text up to case
EmailMatches(x) ==
  {k \in 0..(Len(store.accounts) - 1) :
     /\ store.accounts[k + 1].email # ""
     /\ toLowerCase(store.accounts[k + 1].email) = toLowerCase(TemplateString(x))}

\* the index the identifier stands for: "none" when it is looked up by
\* email and no email matches
IndexMeant(x) ==
  IF x.t = "number" THEN [kind |-> "index", index |-> x.n]
  ELSE IF x.t = "string" /\ \E d \in DigitStrings : d[1] = x.s
  THEN [kind |-> "index", index |-> (CHOOSE d \in DigitStrings : d[1] = x.s)[2]]
  ELSE IF EmailMatches(x) = {} THEN [kind |-> "none", index |-> -1]
  ELSE [kind |-> "index",
        index |-> CHOOSE k \in EmailMatches(x) : \A j \in EmailMatches(x) : k <= j]

\* the envelope the dispatch of line i has settled with or has written
EnvelopesOf(i) ==
  {out[k].env : k \in Answers(i)}
  \cup (IF task[i].pc = "settled" /\ task[i].kind = "string" THEN {task[i].env} ELSE {})

\* C22: get_antigravity_account_quota takes a number as the index, a string
\* of digits as the index it denotes, and any other value as an email,
\* compared without regard to case, the first match winning. When no email
\* matches, the call fails with account-not-found; when the index is
\* outside [0, length), it fails with index-out-of-range; in both cases no
\* pipeline is started. Otherwise the pipeline of the account at that index
\* is started and the result returned has that account_index.
C22_IdentifierResolution ==
  \A i \in Received :
    (IsGetOne(inputLog[i]) /\ AccountsLoaded) =>
      LET m == IndexMeant(inputLog[i].account)
          n == Len(store.accounts)
      IN IF m.kind = "none"
         THEN /\ pipe[i] = <<>>
              /\ toolResult[i].kind = "none"
              /\ \A e \in EnvelopesOf(i) :
                   /\ e.type = "error"
                   /\ e.what = "Account not found"
         ELSE IF m.index < 0 \/ m.index >= n
         THEN /\ pipe[i] = <<>>
              /\ toolResult[i].kind = "none"
              /\ \A e \in EnvelopesOf(i) :
                   /\ e.type = "error"
                   /\ e.what = "Account index out of range"
         ELSE /\ Len(pipe[i]) = 1
              /\ pipe[i][1].pc # "spent" =>
                   /\ pipe[i][1].result.account_index = m.index
                   /\ pipe[i][1].result.enabled = IsEnabled(store.accounts[m.index + 1])
              /\ toolResult[i].kind # "none" =>
                   /\ toolResult[i].kind = "one"
                   /\ toolResult[i].accounts[1].account_index = m.index
              /\ \A e \in EnvelopesOf(i) :
                   e.what \notin {"Account not found", "Account index out of range"}

\* get_antigravity_account_quota with the identifier "a@x" has returned the
\* quota of the second account, whose email is "A@X"
C22_Witness ==
  \E i \in Received :
    /\ inputLog[i] = AccountCall(JsNum(1), JsStr("a@x"))
    /\ store.accounts = <<AccountNamed("", JsBool(1), TRUE), AccountNamed("A@X", JsBool(1), TRUE)>>
    /\ toolResult[i].kind = "one"
    /\ toolResult[i].accounts[1].account_index = 1
    /\ toolResult[i].accounts[1].antigravity_models # <<>>
    /\ task[i] = ToolSucceeded(inputLog[i])

\* ------------------------------------------------------------------------
\* C23
\* ------------------------------------------------------------------------

\* the accounts file is missing, or is there and holds no accounts
NoAccounts == store.kind = "missing" \/ (store.kind = "ok" /\ store.accounts = <<>>)

\* the messages of the no-accounts-configured condition
NoAccountsMessages ==
  {"Antigravity accounts file not found", "No Antigravity accounts configured"}

\* C23: when the accounts file is missing or holds no accounts,
\* get_antigravity_quota and get_antigravity_account_quota fail as a whole:
\* the dispatch settles at once with an application error envelope that
\* says so, which is the one answer of the call; no pipeline, token refresh
\* or quota call is started; nothing escapes the dispatcher, the process
\* exits only after the input was closed, and every later request with an
\* id is answered.
C23_NoAccountsConfigured ==
  \A i \in Received :
    ((IsGetAll(inputLog[i]) \/ IsGetOne(inputLog[i])) /\ NoAccounts) =>
      /\ task[i].pc \in {"settled", "done"}
      /\ pipe[i] = <<>>
      /\ \A c \in CallNames : <<i, c>> \notin started
      /\ toolResult[i].kind = "none"
      /\ \A e \in EnvelopesOf(i) :
           /\ e.type = "error"
           /\ e.code = ApplicationErrorCode
           /\ e.what \in NoAccountsMessages
           /\ e.id = inputLog[i].id
      /\ Left(i) => Cardinality(Answers(i)) = 1
      /\ unhandled = 0
      /\ exited => stdinClosed
      /\ \A j \in Received :
           (j > i /\ HasId(inputLog[j]) /\ Left(j)) => Cardinality(Answers(j)) = 1

\* get_antigravity_quota was answered with the no-accounts error, and the
\* ping that came after it was answered with a result
C23_Witness ==
  /\ Len(inputLog) = 2
  /\ IsGetAll(inputLog[1])
  /\ inputLog[2] = Plain(JsNum(2), "ping")
  /\ NoAccounts
  /\ Len(out) = 2
  /\ out[1].line = 1
  /\ out[1].env.what \in NoAccountsMessages
  /\ out[2].line = 2
  /\ out[2].env.type = "result"
  /\ ~exited

\* ------------------------------------------------------------------------
\* C24
\* ------------------------------------------------------------------------

\* the line is a tools/call with an id for a usage tool
IsUsageCall(l) == IsToolCallWithId(l) /\ l.hasParams /\ UsageCalls(l.name) # {}

\* the quota tool call of line i comes to an account that is enabled and has
\* a refresh token, so that it needs the client secret
NeedsClientSecret(i) ==
  /\ IsGetAll(inputLog[i]) \/ IsGetOne(inputLog[i])
  /\ AccountsLoaded
  /\ \E a \in 1..Len(store.accounts) :
       IsEnabled(store.accounts[a]) /\ store.accounts[a].refreshToken

\* the envelope is an error under the application error code
IsApplicationError(e) == e.type = "error" /\ e.code = ApplicationErrorCode

\* the process has not crashed: nothing escaped a line callback, and it has
\* exited only after its input was closed
NotCrashed == unhandled = 0 /\ (exited => stdinClosed)

ToolCallFails(i) ==
  LET l == inputLog[i]
  IN \/ IsHoursCall(l) /\ ~ValidateHours(impl, l.hours).ok
     \/ (IsGetAll(l) \/ IsGetOne(l)) /\ ~AccountsLoaded
     \/ /\ IsGetOne(l)
        /\ AccountsLoaded
        /\ \/ ~resolveIndex(l.account, store.accounts).found
           \/ OutOfRange(resolveIndex(l.account, store.accounts).index, store.accounts)
     \/ IsUsageCall(l) /\ ~apiKey
     \/ IsUsageCall(l) /\ \E f \in failed : f[1] = i

\* C25: in both servers a tool call that fails is answered with an error
\* envelope that carries a message, and no tool call is answered with a
\* result envelope whose content describes a failure.
C25_FailuresAreErrors ==
  \A i \in Received :
    (IsToolCallWithId(inputLog[i]) /\ inputLog[i].hasParams) =>
      \A e \in EnvelopesOf(i) :
        /\ e.what # "error content"
        /\ ToolCallFails(i) => (e.type = "error" /\ e.what # "")

\* ------------------------------------------------------------------------
\* C26
\* ------------------------------------------------------------------------

\* the fraction of a model's info as the upstream sent it
SourceFractionOfModel(info) ==
  IF info.t = "object" /\ info.quotaInfo.t = "object"
  THEN info.quotaInfo.remainingFraction ELSE JsUndefined

\* the whole number nearest to a tenth of t, halves going up
NearestPct(t) == CHOOSE n \in -1..200 : 10 * n - 5 <= t /\ t < 10 * n + 5

\* an entry whose two fields come from one source value
DerivedFrom(e, f) ==
  /\ e.remaining_pct = JsNull <=> e.remaining_fraction = JsNull
  /\ e.remaining_fraction = JsNull <=> f.t # "number"
  /\ f.t = "number" =>
       /\ e.remaining_fraction = f
       /\ e.remaining_pct = JsNum(NearestPct(f.n))

\* the pipelines whose parsers have returned
ParsersReturned(i) ==
  {a \in 1..Len(pipe[i]) :
     pipe[i][a].pc = "resolved" /\ pipe[i][a].ag.st = "ok" /\ pipe[i][a].gc.st = "ok"}

\* C26: every model entry and every bucket entry the modular parsers
\* produce has remaining_pct null exactly when remaining_fraction is null,
\* which is exactly when the source fraction is absent or not a number;
\* otherwise remaining_fraction is the source fraction and remaining_pct is
\* that fraction times 100, rounded.
C26_PctFollowsFraction ==
  \A i \in Received : \A a \in ParsersReturned(i) :
    LET p == pipe[i][a]
        kept == KeptItems(p.gc.data.items, 1)
    IN /\ Len(p.result.antigravity_models) = Len(p.ag.data.entries)
       /\ \A k \in 1..Len(p.result.antigravity_models) :
            DerivedFrom(p.result.antigravity_models[k],
                        SourceFractionOfModel(p.ag.data.entries[k]))
       /\ Len(p.result.gemini_cli_quota) = Len(kept)
       /\ \A k \in 1..Len(p.result.gemini_cli_quota) :
            DerivedFrom(p.result.gemini_cli_quota[k], kept[k].remainingFraction)

\* a model at 0.5% reported as 1, next to a bucket whose fraction is a string
C26_Witness ==
  \E i \in Received : \E a \in ParsersReturned(i) :
    /\ \E k \in 1..Len(pipe[i][a].result.antigravity_models) :
         /\ pipe[i][a].result.antigravity_models[k].remaining_fraction = JsNum(5)
         /\ pipe[i][a].result.antigravity_models[k].remaining_pct = JsNum(1)
    /\ \E k \in 1..Len(pipe[i][a].result.gemini_cli_quota) :
         /\ pipe[i][a].result.gemini_cli_quota[k].remaining_fraction = JsNull
         /\ pipe[i][a].result.gemini_cli_quota[k].remaining_pct = JsNull

\* ------------------------------------------------------------------------
\* C27
\* ------------------------------------------------------------------------

\* the request of the line needs no outbound call
NeedsNoCall(l) ==
  /\ l.kind = "object"
  /\ CallsStarted(impl, l) = {}
  /\ PipelinesStarted(impl, l) = <<>>

\* a dispatch begins only for the line that has just arrived
DispatchedOnArrival ==
  \A i \in Slots :
    (task[i].pc = "idle" /\ task'[i].pc # "idle") =>
      (i = Len(inputLog) + 1 /\ Len(inputLog') = i)

\* a request that needs no outbound call has its response at hand as soon
\* as it is dispatched and can be written whatever else is in flight
NeverBlocked ==
  \A j \in Received :
    (NeedsNoCall(inputLog[j]) /\ ~Left(j)) =>
      (task[j].pc = "settled" /\ ENABLED Resume(j))

\* every output line of a request echoes the id of that request
OwnId ==
  \A k \in 1..Len(out) :
    inputLog[out[k].line].kind = "object" => out[k].env.id = inputLog[out[k].line].id

ReadsBlank ==
  /\ Len(inputLog') = Len(inputLog) + 1
  /\ inputLog'[Len(inputLog')].kind = "blank"

\* a step that reads a blank line writes nothing and leaves the counter, the
\* closed flag, the tasks and the outbound calls as they were
BlankLeavesAllAlone ==
  ReadsBlank =>
    /\ out' = out
    /\ pendingRequests' = pendingRequests
    /\ stdinClosed' = stdinClosed
    /\ exited' = exited
    /\ task' = task
    /\ calls' = calls
    /\ started' = started

\* a blank line is never answered and never handed to the dispatcher
BlankNeverDispatched ==
  \A i \in Received :
    inputLog[i].kind = "blank" => (Answers(i) = {} /\ task[i] = Idle)

\* C28: a blank or whitespace-only input line produces no output line,
\* leaves the in-flight counter and the input-closed flag unchanged, and is
\* never dispatched.
C28_BlankIgnored ==
  /\ [][BlankLeavesAllAlone]_vars
  /\ []BlankNeverDispatched

\* a blank line read while a request was in flight
C28_Witness ==
  \E i \in Received :
    /\ inputLog[i].kind = "blank"
    /\ i > 1
    /\ task[i - 1].pc = "awaitTool"
    /\ pendingRequests = 1

\* ------------------------------------------------------------------------
\* C29
\* ------------------------------------------------------------------------

\* the step hands line i to the dispatcher
Enters(i) == task[i].pc = "idle" /\ task'[i].pc # "idle"

\* the step runs the finally block of line i
Leaves(i) == task[i].pc # "done" /\ task'[i].pc = "done"

\* the counter goes up by one with each dispatch, down by one with each
\* finally block, and does not move otherwise; a line enters and leaves at
\* most once
CountedOnce ==
  /\ \A i \in Slots : Enters(i) => pendingRequests' = pendingRequests + 1
  /\ \A i \in Slots : Leaves(i) => pendingRequests' = pendingRequests - 1
  /\ pendingRequests' # pendingRequests => \E i \in Slots : Enters(i) \/ Leaves(i)
  /\ \A i \in Slots : task[i].pc = "done" => task'[i].pc = "done"
  /\ \A i \in Slots : Leaves(i) => task[i].pc = "settled"

\* the counter is the number of dispatches that have not left
CounterIsInFlight ==
  /\ pendingRequests = InFlight
  /\ pendingRequests >= 0
  /\ (\A i \in Received : ~Dispatched(i) \/ Left(i)) => pendingRequests = 0

\* C29: the in-flight counter always equals the number of messages handed
\* to the dispatcher whose line callback has not yet run its finally block:
\* it is incremented exactly once before each dispatch, decremented exactly
\* once afterwards whether the dispatch resolved or threw, is never
\* negative, and is zero whenever no dispatch is outstanding.
C29_CounterTracksDispatches ==
  /\ [][CountedOnce]_vars
  /\ []CounterIsInFlight

\* a dispatch that threw has left while a tools/call is still in flight
C29_Witness ==
  \E i, j \in Received :
    /\ inputLog[i].kind = "null"
    /\ Left(i)
    /\ task[j].pc = "awaitTool"
    /\ pendingRequests = 1

\* ------------------------------------------------------------------------
\* C30
\* ------------------------------------------------------------------------

\* the dispatch of line i failed outside the dispatcher's try block
ThrewOutside(i) == task[i].pc = "settled" /\ task[i].kind = "throw"

\* the finally block of a dispatch that threw: nothing is written to
\* standard output, the counter is restored, the process exits only if the
\* input is closed and nothing is in flight, and otherwise the rejection is
\* logged once
ThrowOnlyLogged ==
  \A i \in Slots :
    (ThrewOutside(i) /\ Leaves(i)) =>
      /\ out' = out
      /\ pendingRequests' = pendingRequests - 1
      /\ exited' <=> (stdinClosed /\ pendingRequests' = 0)
      /\ unhandled' = IF exited' THEN unhandled ELSE unhandled + 1
      /\ \A j \in Slots \ {i} : task'[j] = task[j]
      /\ calls' = calls

\* the server goes on after a dispatch that threw: the process is still up
\* unless the input was closed, every request that arrived after the failed
\* line was dispatched, and each one that has left was answered once, with
\* its own id
ServesAfterThrow ==
  \A i \in Received :
    (inputLog[i].kind = "null" /\ Left(i)) =>
      /\ exited => stdinClosed
      /\ \A j \in Received :
           (j > i /\ HasId(inputLog[j])) =>
             /\ task[j].pc # "idle"
             /\ Left(j) =>
                  /\ Cardinality(Answers(j)) = 1
                  /\ \A k \in Answers(j) : out[k].env.id = inputLog[j].id

\* C30: a dispatch that fails outside the dispatcher's error handling (the
\* line is the JSON value null, so that reading its id throws) is only
\* logged to the diagnostic stream: the process does not exit because of
\* it, the in-flight counter is restored, and every later request is still
\* dispatched and answered.
C30_ThrowIsSurvived ==
  /\ [][ThrowOnlyLogged]_vars
  /\ []ServesAfterThrow

\* the null line was logged and left, and the request after it was answered
C30_Witness ==
  \E i, j \in Received :
    /\ inputLog[i].kind = "null"
    /\ Left(i)
    /\ unhandled = 1
    /\ ~exited
    /\ pendingRequests = 0
    /\ j > i
    /\ HasId(inputLog[j])
    /\ \E k \in Answers(j) : out[k].env.type = "result"

\* ------------------------------------------------------------------------
\* C31
\* ------------------------------------------------------------------------

\* how the outbound calls of line i that failed ended
OwnFailures(i) == {<<f[2], f[3]>> : f \in {g \in failed : g[1] = i}}

\* the outbound calls line i started
OwnStarted(i) == {c[2] : c \in {d \in started : d[1] = i}}

\* the envelopes written for line i
EnvelopesWritten(i) == {out[k].env : k \in Answers(i)}

\* two dispatches of the same message whose outbound calls ended alike
\* started the same calls and were answered alike
SameMessageSameResponse ==
  \A i, j \in Received :
    (/\ inputLog[i] = inputLog[j]
     /\ Left(i) /\ Left(j)
     /\ OwnFailures(i) = OwnFailures(j)) =>
      (EnvelopesWritten(i) = EnvelopesWritten(j) /\ OwnStarted(i) = OwnStarted(j))

\* every answer to tools/list is the list of the six descriptors
SixToolsListed ==
  \A k \in 1..Len(out) :
    (inputLog[out[k].line].kind = "object" /\ inputLog[out[k].line].method = "tools/list") =>
      /\ out[k].env.type = "result"
      /\ [n \in 1..Len(out[k].env.tools) |-> out[k].env.tools[n].name] =
           <<"get_usage", "get_quota", "get_model_usage", "get_tool_usage",
             "get_antigravity_quota", "get_antigravity_account_quota">>
      /\ \A j \in 1..Len(out) :
           (inputLog[out[j].line].kind = "object"
            /\ inputLog[out[j].line].method = "tools/list") =>
             out[j].env.tools = out[k].env.tools

\* C31: the dispatcher keeps no state between calls: the response to a
\* message depends only on the message and on how its own outbound calls
\* ended, never on the messages processed before it or in flight with it;
\* tools/list returns the same list of six descriptors in every reachable
\* state, and no tool call changes it.
C31_DispatchIsIndependent == SameMessageSameResponse /\ SixToolsListed

\* tools/list answered while a tools/call was in flight
C31_Witness ==
  \E i, j \in Received :
    /\ i < j
    /\ IsToolCallWithId(inputLog[i])
    /\ task[i].pc = "awaitTool"
    /\ inputLog[j].method = "tools/list"
    /\ \E k \in Answers(j) : Len(out[k].env.tools) = 6

\* ------------------------------------------------------------------------
\* C32
\* ------------------------------------------------------------------------

\* what the two dispatchers hand back for the message of line i
OfModular(i) == handleMessage("modular", inputLog[i])
OfSingle(i) == handleMessage("single", inputLog[i])

\* the lines whose dispatch has left and was decided by the method alone
PlainLeft ==
  {i \in Received :
     inputLog[i].kind = "object" /\ Left(i) /\ inputLog[i].method # "tools/call"}

\* the lines whose tools/call named a tool that is not registered
UnknownToolLeft ==
  {i \in Received :
     /\ IsToolCallWithId(inputLog[i]) /\ inputLog[i].hasParams
     /\ inputLog[i].name \notin TOOLS /\ Left(i)}

\* the running server wrote what its dispatcher handed back
WroteOwn(i) ==
  EnvelopesWritten(i) =
    IF handleMessage(impl, inputLog[i]).kind = "string"
    THEN {handleMessage(impl, inputLog[i]).env} ELSE {}

\* for an unregistered tool the two envelopes differ in the code only
UnknownToolDiffersInCode ==
  \A i \in UnknownToolLeft :
    /\ WroteOwn(i)
    /\ OfModular(i).env.code = -32000
    /\ OfSingle(i).env.code = -32601
    /\ [OfModular(i).env EXCEPT !.code = 0] = [OfSingle(i).env EXCEPT !.code = 0]

\* the names a tools/list envelope advertises, in order
NamesListed(env) == [n \in 1..Len(env.tools) |-> env.tools[n].name]

\* The two dispatchers differ for an unregistered tool in the error code
\* only and hand back identical envelopes for initialize, ping, tools/list,
\* unknown methods and notifications (C32 as stated).
C32_SameButUnknownToolCode ==
  /\ UnknownToolDiffersInCode
  /\ \A i \in PlainLeft : WroteOwn(i) /\ OfModular(i) = OfSingle(i)

\* C32: the two dispatchers differ for a tools/call whose params name an
\* unregistered tool in the error code only (-32000 modular, -32601
\* single-file) and hand back identical envelopes for initialize, ping,
\* unknown methods and notifications; for tools/list both advertise the
\* same six names in the same order under the same id, but the descriptors
\* are not the same.
C32_SameButCodeAndDescriptors ==
  /\ UnknownToolDiffersInCode
  /\ \A i \in PlainLeft :
       /\ WroteOwn(i)
       /\ (inputLog[i].method # "tools/list" \/ ~HasId(inputLog[i])) =>
            OfModular(i) = OfSingle(i)
       /\ (inputLog[i].method = "tools/list" /\ HasId(inputLog[i])) =>
            /\ NamesListed(OfModular(i).env) = NamesListed(OfSingle(i).env)
            /\ Len(OfModular(i).env.tools) = 6
            /\ [OfModular(i).env EXCEPT !.tools = <<>>] =
                 [OfSingle(i).env EXCEPT !.tools = <<>>]
            /\ OfModular(i).env.tools # OfSingle(i).env.tools

\* the single-file server has answered tools/list
C32_Witness ==
  \E i \in PlainLeft :
    /\ impl = "single"
    /\ inputLog[i].method = "tools/list"
    /\ \E k \in Answers(i) : out[k].env.tools = ToolDescriptorsSingle

\* ------------------------------------------------------------------------
\* C33
\* ------------------------------------------------------------------------

\* C33: at the moment the process exits no outbound call started by a tool
\* call is still outstanding: every call that was started has completed,
\* failed or timed out before the exit decision is taken.
C33_NothingOutstandingAtExit ==
  exited => \A i \in Received : ~Outstanding(i)

\* ------------------------------------------------------------------------
\* C34
\* ------------------------------------------------------------------------

\* the names the modular server advertises in tools/list
Advertised == {n \in NamesTried : \E k \in 1..Len(ToolDescriptors("modular")) :
                                    ToolDescriptors("modular")[k].name = n}

\* the tools/call of line i ended in the default arm of executeTool
SaidUnknownTool(i) ==
  \E e \in EnvelopesOf(i) :
    e.type = "error" /\ e.what = "Unknown tool" /\ e.arg = inputLog[i].name

\* C34: the names executeTool dispatches to a handler are exactly the names
\* tools/list advertises: a call of an advertised tool never fails with
\* "Unknown tool", and a call of any other name fails with "Unknown tool"
\* and starts no outbound call.
C34_ExecutableIsAdvertised ==
  /\ \A n \in NamesTried : executeTool(n) <=> n \in Advertised
  /\ \A i \in Received :
       (IsToolCallWithId(inputLog[i]) /\ inputLog[i].hasParams) =>
         IF inputLog[i].name \in Advertised
         THEN ~SaidUnknownTool(i)
         ELSE /\ OwnStarted(i) = {}
              /\ pipe[i] = <<>>
              /\ task[i].pc # "awaitTool"
              /\ EnvelopesOf(i) # {} => SaidUnknownTool(i)
  /\ \A k \in 1..Len(out) :
       inputLog[out[k].line].method = "tools/list" =>
         {out[k].env.tools[n].name : n \in 1..Len(out[k].env.tools)} = Advertised

\* the account tool has been answered, and not with "Unknown tool"
C34_Witness ==
  \E i \in Received :
    /\ inputLog[i].name = "get_antigravity_account_quota"
    /\ IsToolCallWithId(inputLog[i]) /\ inputLog[i].hasParams
    /\ Answered(i)
    /\ ~SaidUnknownTool(i)

\* ------------------------------------------------------------------------
\* C35
\* ------------------------------------------------------------------------

\* the prefixes of the errors after which the pipeline returns at once
EarlyErrors ==
  {"Account is disabled", "No refresh token stored for this account",
   "Token refresh failed"}

\* the prefixes of the entries of errors
PrefixesOf(errors) == {errors[k][1] : k \in 1..Len(errors)}

\* C35: every AccountQuotaResult a per-account pipeline returns has at most
\* two errors; a disabled, missing-token or token-refresh error is its only
\* error and comes with both lists empty; a non-empty antigravity_models
\* comes without an "Antigravity models" error and a non-empty
\* gemini_cli_quota without a "Gemini CLI quota" error; enabled is false
\* exactly when the enabled member of the account record is false.
C35_ResultShape ==
  \A i \in Received : \A a \in 1..Len(pipe[i]) :
    pipe[i][a].pc = "resolved" =>
      LET r == pipe[i][a].result
          acc == store.accounts[r.account_index + 1]
      IN /\ Len(r.errors) <= 2
         /\ PrefixesOf(r.errors) \cap EarlyErrors # {} =>
              /\ Len(r.errors) = 1
              /\ r.antigravity_models = <<>>
              /\ r.gemini_cli_quota = <<>>
         /\ r.antigravity_models # <<>> => "Antigravity models" \notin PrefixesOf(r.errors)
         /\ r.gemini_cli_quota # <<>> => "Gemini CLI quota" \notin PrefixesOf(r.errors)
         /\ (r.enabled = FALSE) <=> (acc.enabled = JsBool(0))

\* get_antigravity_quota holds the results of two accounts: one without an
\* enabled member whose models call failed and whose buckets were listed,
\* and one switched off
C35_Witness ==
  \E i \in Received :
    /\ Len(pipe[i]) = 2
    /\ store.accounts[1].enabled = JsUndefined
    /\ store.accounts[2].enabled = JsBool(0)
    /\ pipe[i][1].pc = "resolved"
    /\ pipe[i][2].pc = "resolved"
    /\ pipe[i][1].result.enabled
    /\ PrefixesOf(pipe[i][1].result.errors) = {"Antigravity models"}
    /\ pipe[i][1].result.gemini_cli_quota # <<>>
    /\ PrefixesOf(pipe[i][2].result.errors) = {"Account is disabled"}

\* ------------------------------------------------------------------------
\* C36
\* ------------------------------------------------------------------------

\* the remaining_pct values of the entries counted for a key
CountedPcts(r, key) == {EntryAt(r, x).remaining_pct.n : x \in Available(r, key)}

\* C36: in every summary get_antigravity_quota returns, best_remaining_pct
\* of a key is -1 exactly when its accounts_available is 0; otherwise it
\* is at least 1 and is the remaining_pct of one of the entries counted in
\* accounts_available.
C36_BestMatchesAvailable ==
  \A i \in Received :
    toolResult[i].kind = "all" =>
      \A j \in 1..Len(toolResult[i].summary) :
        LET e == toolResult[i].summary[j]
        IN /\ (e.best_remaining_pct = -1) <=> (e.accounts_available = 0)
           /\ e.accounts_available # 0 =>
                /\ e.best_remaining_pct >= 1
                /\ e.best_remaining_pct \in CountedPcts(toolResult[i], e.key)

\* get_antigravity_quota has returned a summary in which m2, whose only
\* entries round to 0%, has best -1 over no account, and m1 has a best of
\* 40 taken from a counted entry
C36_Witness ==
  \E i \in Received :
    /\ toolResult[i].kind = "all"
    /\ \E j \in 1..Len(toolResult[i].summary) :
         /\ toolResult[i].summary[j] = SummaryEntry(<<"", "m2">>, -1, 0)
         /\ \E x \in EntriesAt(toolResult[i]) :
              /\ SummaryKey(x[2], EntryAt(toolResult[i], x).model) = <<"", "m2">>
              /\ EntryAt(toolResult[i], x).remaining_pct = JsNum(0)
    /\ \E j \in 1..Len(toolResult[i].summary) :
         /\ toolResult[i].summary[j].key = <<"", "m1">>
         /\ toolResult[i].summary[j].best_remaining_pct = 40
         /\ 40 \in CountedPcts(toolResult[i], <<"", "m1">>)

\* ------------------------------------------------------------------------
\* C37
\* ------------------------------------------------------------------------

\* the accounts, by position, that have an entry counted for a key
AccountsCounted(r, key) == {x[1] : x \in Available(r, key)}

Resolves(x) ==
  IF x.t = "number" THEN x.s # "half" /\ 0 <= x.n /\ x.n < Len(store.accounts)
  ELSE IF x.t = "string" /\ \E d \in DigitStrings : d[1] = x.s
  THEN \E d \in DigitStrings : d[1] = x.s /\ d[2] < Len(store.accounts)
  ELSE EmailMatches(x) # {}

\* the dispatch of line i has ended at once in an application error and
\* has started nothing
FailedWithoutCall(i) ==
  /\ pipe[i] = <<>>
  /\ \A c \in CallNames : <<i, c>> \notin started
  /\ toolResult[i].kind = "none"
  /\ task[i].pc \in {"settled", "done"}
  /\ \A e \in EnvelopesOf(i) :
       /\ e.type = "error"
       /\ e.code = ApplicationErrorCode
  /\ EnvelopesOf(i) # {} \/ exited

\* C38: get_antigravity_account_quota starts the per-account pipeline only
\* with an account that is there, at a whole index in [0, length); for an
\* identifier that does not resolve to such an index (an email no account
\* has, no identifier, a negative, too large or fractional number) the call
\* fails with an error, and no token refresh or quota call is started.
C38_PipelineOnlyForAccount ==
  \A i \in Received :
    IsGetOne(inputLog[i]) =>
      /\ pipe[i] # <<>> =>
           /\ Resolves(inputLog[i].account)
           /\ Len(pipe[i]) = 1
           /\ pipe[i][1].pc # "spent" =>
                pipe[i][1].result.account_index \in 0..(Len(store.accounts) - 1)
      /\ ~Resolves(inputLog[i].account) => FailedWithoutCall(i)

\* the single-file server was asked for the account 1/2 of a list that is
\* not empty, and has answered with the error of the failed read
C38_Witness ==
  \E i \in Received :
    /\ impl = "single"
    /\ inputLog[i] = AccountCall(JsNum(1), JsHalf(0))
    /\ ~OutOfRange(0, store.accounts)
    /\ FailedWithoutCall(i)
    /\ \E k \in Answers(i) : out[k].env.what = "TypeError"

\* ------------------------------------------------------------------------
\* C39
\* ------------------------------------------------------------------------

\* the value does not coerce to a finite number greater than zero: it is
\* absent, at most 0, not a number or not finite
NotPositiveHours(h) == CoercedPositive(h) = 0

\* the single-file server has taken 24 for the hours of line i: the call is
\* not answered with the validation error; with the usage credential its
\* usage calls have been started with 24 hours and an error answer comes
\* from a usage call that failed; without it the answer is a result that
\* holds the error text
TookDefault(i) ==
  /\ \A e \in EnvelopesOf(i) : e.what # "Invalid hours value"
  /\ apiKey =>
       /\ validHours[i] = DefaultHours
       /\ \A c \in UsageCalls(inputLog[i].name) : <<i, c>> \in started
       /\ \A e \in EnvelopesOf(i) : e.type = "error" => \E f \in failed : f[1] = i
  /\ ~apiKey =>
       /\ task[i].pc # "awaitTool"
       /\ \A e \in EnvelopesOf(i) : e.type = "result"

\* the modular server has rejected the hours of line i: the call never
\* waits for a tool, starts no usage call and is answered with the
\* validation error
Rejected(i) ==
  /\ task[i].pc # "awaitTool"
  /\ \A c \in CallNames : <<i, c>> \notin started
  /\ \A e \in EnvelopesOf(i) :
       /\ e.type = "error"
       /\ e.code = ApplicationErrorCode
       /\ e.what = "Invalid hours value"

\* C39: in the single-file server the validation of hours never fails a
\* tool call: an hours argument that does not coerce to a finite number
\* greater than zero (absent, at most 0, NaN, not numeric) is replaced by 24
\* and the usage call goes on; the modular server rejects these arguments,
\* the absent one apart, with a validation error.
C39_SingleDefaultsModularRejects ==
  \A i \in Received :
    (IsHoursCall(inputLog[i]) /\ NotPositiveHours(inputLog[i].hours)) =>
      IF impl = "single" THEN TookDefault(i)
      ELSE IF inputLog[i].hours = JsUndefined
      THEN \A e \in EnvelopesOf(i) : e.what # "Invalid hours value"
      ELSE Rejected(i)

\* the single-file server was sent get_model_usage with hours "abc", gave
\* its usage call 24 hours and answered with a result
C39_Witness ==
  \E i \in Received :
    /\ impl = "single"
    /\ inputLog[i] = ToolCall(JsNum(1), "get_model_usage", JsStr("abc"))
    /\ validHours[i] = DefaultHours
    /\ <<i, "model_usage">> \in started
    /\ \E k \in Answers(i) : out[k].env.type = "result"

====
